---------------------------- MODULE Spec2Model ----------------------------
(***************************************************************************)
(* Model of the self-healing element location of NTDPFrontOffice:          *)
(*   - SelfHealingLocator          (src/utils/SelfHealingLocator.ts)       *)
(*   - EnhancedSelfHealingLocator  (src/tests/zap-security.spec.ts,        *)
(*     lines 312-825; imported as utils/EnhancedSelfHealingLocator)        *)
(*                                                                         *)
(* A Playwright Locator is a lazy query, so a returned locator is modelled *)
(* by the query that built it (a tuple of strings).  The page is external: *)
(* every call draws the set `vis` of queries whose waitFor({state:         *)
(* 'visible'}) succeeds during that call.  Template literals are tuples of *)
(* their parts; the leading emoji of a message is left out.                *)
(*                                                                         *)
(* Success rates are kept in units of 0.05 (0.5 = 10, 0.8 = 16, 1.0 = 20), *)
(* the grain of the code's two steps (+0.1, -0.05); IEEE rounding of the   *)
(* additions is not modelled.                                              *)
(***************************************************************************)
EXTENDS Integers, Sequences, FiniteSets, TLC

VARIABLES
    locatorHistory,       \* SelfHealingLocator.locatorHistory
    strategyHistory,      \* EnhancedSelfHealingLocator.strategyHistory
    elementFingerprints,  \* EnhancedSelfHealingLocator.elementFingerprints
    aiLearningEnabled,    \* EnhancedSelfHealingLocator.aiLearningEnabled
    now,                  \* the wall clock read by `new Date()`
    lastCall              \* what the last call did: queries issued, result, log lines

vars == <<locatorHistory, strategyHistory, elementFingerprints,
          aiLearningEnabled, now, lastCall>>

----------------------------------------------------------------------------
(* JavaScript values *)

\* An omitted option reads as undefined; `${undefined}` prints "undefined".
UNDEF == "undefined"

\* if (options.x): undefined and the empty string are falsy.
Truthy(v) == v /= UNDEF /\ v /= ""

Range(s) == {s[i] : i \in DOMAIN s}

----------------------------------------------------------------------------
(* Page queries (Playwright locators) *)

getByRole(role, name) == <<"getByRole", role, name>>
getByTestId(testId) == <<"getByTestId", testId>>
getByLabel(label) == <<"getByLabel", label>>
getByPlaceholder(placeholder) == <<"getByPlaceholder", placeholder>>
getByText(text) == <<"getByText", text>>
locator(selector) == <<"locator", selector>>
first(query) == <<"first">> \o query

\* The outcome of a call: a returned locator, or a thrown Error.
NoLocator == <<>>
Returned(query) == [kind |-> "locator", locator |-> query, message |-> <<>>]
Thrown(message) == [kind |-> "error", locator |-> NoLocator, message |-> message]
Pending == [kind |-> "pending", locator |-> NoLocator, message |-> <<>>]

\* The trace of a call in progress: queries issued, log lines, outcome.
EmptyRun == [queried |-> <<>>, logs |-> <<>>, result |-> Pending]

Query(run, query) == [run EXCEPT !.queried = Append(@, query)]
Log(run, line) == [run EXCEPT !.logs = Append(@, line)]
Finish(run, result) == [run EXCEPT !.result = result]

\* locator.waitFor({ state: 'visible', timeout }) resolves iff the query is
\* visible on the page during this call.
waitFor(query, vis) == query \in vis

----------------------------------------------------------------------------
(* SelfHealingLocator *)

updateLocatorHistory(history, identifier, selector) ==
    [history EXCEPT ![identifier] = Append(@, selector)]

RECURSIVE findElementFallbacks(_, _, _, _, _)
findElementFallbacks(fallbackSelectors, k, identifier, vis, run) ==
    IF k > Len(fallbackSelectors)
    THEN [run |-> Finish(run, Thrown(<<"All selectors failed for ", identifier>>)),
          healed |-> UNDEF]
    ELSE LET selector == fallbackSelectors[k]
             element == locator(selector)
             tried == Query(run, element)
         IN  IF waitFor(element, vis)
             THEN [run |-> Finish(Log(tried, <<"Self-healed ", identifier, " using: ", selector>>),
                                  Returned(element)),
                   healed |-> selector]
             ELSE findElementFallbacks(fallbackSelectors, k + 1, identifier, vis,
                      Log(tried, <<"Fallback selector failed for ", identifier, ": ", selector>>))

\* A faulty variant of findElement: a primary selector that succeeds is pushed
\* on the locator history too.
findElementPrimaryRecorded(primarySelector, fallbackSelectors, identifier, vis) ==
    LET element == locator(primarySelector)
        tried == Query(EmptyRun, element)
    IN  IF waitFor(element, vis)
        THEN [run |-> Finish(tried, Returned(element)), healed |-> primarySelector]
        ELSE findElementFallbacks(fallbackSelectors, 1, identifier, vis,
                 Log(tried, <<"Primary selector failed for ", identifier, ": ", primarySelector>>))

\* findElement(primarySelector, fallbackSelectors, identifier): the run and the
\* selector pushed on the locator history (UNDEF: none).
findElement(primarySelector, fallbackSelectors, identifier, vis) ==
    LET element == locator(primarySelector)
        tried == Query(EmptyRun, element)
    IN  IF waitFor(element, vis)
        THEN [run |-> Finish(tried, Returned(element)), healed |-> UNDEF]
        ELSE findElementFallbacks(fallbackSelectors, 1, identifier, vis,
                 Log(tried, <<"Primary selector failed for ", identifier, ": ", primarySelector>>))

\* A faulty variant of smartLocatorStrategies: the test id is tried before role + text.
smartLocatorStrategiesTestIdFirst(options) ==
       (IF Truthy(options.testId) THEN <<getByTestId(options.testId)>> ELSE <<>>)
    \o (IF Truthy(options.role) /\ Truthy(options.text)
        THEN <<getByRole(options.role, options.text)>> ELSE <<>>)
    \o (IF Truthy(options.label) THEN <<getByLabel(options.label)>> ELSE <<>>)
    \o (IF Truthy(options.placeholder) THEN <<getByPlaceholder(options.placeholder)>> ELSE <<>>)
    \o (IF Truthy(options.text) THEN <<getByText(options.text)>> ELSE <<>>)
    \o (IF Truthy(options.css) THEN <<locator(options.css)>> ELSE <<>>)
    \o (IF Truthy(options.xpath) THEN <<locator(options.xpath)>> ELSE <<>>)

\* The strategy list smartLocator builds from the supplied options.
smartLocatorStrategies(options) ==
       (IF Truthy(options.role) /\ Truthy(options.text)
        THEN <<getByRole(options.role, options.text)>> ELSE <<>>)
    \o (IF Truthy(options.testId) THEN <<getByTestId(options.testId)>> ELSE <<>>)
    \o (IF Truthy(options.label) THEN <<getByLabel(options.label)>> ELSE <<>>)
    \o (IF Truthy(options.placeholder) THEN <<getByPlaceholder(options.placeholder)>> ELSE <<>>)
    \o (IF Truthy(options.text) THEN <<getByText(options.text)>> ELSE <<>>)
    \o (IF Truthy(options.css) THEN <<locator(options.css)>> ELSE <<>>)
    \o (IF Truthy(options.xpath) THEN <<locator(options.xpath)>> ELSE <<>>)

\* A faulty variant of smartLocatorLoop: a success does not end the loop; the last
\* visible strategy is returned.
RECURSIVE smartLocatorLoopKeepsTrying(_, _, _, _, _)
smartLocatorLoopKeepsTrying(strategies, i, identifier, vis, run) ==
    IF i >= Len(strategies)
    THEN IF run.result.kind = "locator" THEN run
         ELSE Finish(run, Thrown(<<"All strategies failed for ", identifier>>))
    ELSE smartLocatorLoopKeepsTrying(strategies, i + 1, identifier, vis,
             IF waitFor(strategies[i + 1], vis)
             THEN Finish(Query(run, strategies[i + 1]), Returned(strategies[i + 1]))
             ELSE Query(run, strategies[i + 1]))

\* for (let i = 0; i < strategies.length; i++) { try {...} catch {...} }
RECURSIVE smartLocatorLoop(_, _, _, _, _)
smartLocatorLoop(strategies, i, identifier, vis, run) ==
    IF i >= Len(strategies)
    THEN Finish(run, Thrown(<<"All strategies failed for ", identifier>>))
    ELSE LET loc == strategies[i + 1]
             tried == Query(run, loc)
         IN  IF waitFor(loc, vis)
             THEN Finish(IF i > 0
                         THEN Log(tried, <<"Self-healed ", identifier,
                                           " using strategy #", ToString(i + 1)>>)
                         ELSE tried,
                         Returned(loc))
             ELSE smartLocatorLoop(strategies, i + 1, identifier, vis,
                      IF i < Len(strategies) - 1
                      THEN Log(tried, <<"Strategy #", ToString(i + 1), " failed for ",
                                        identifier, ", trying next...">>)
                      ELSE tried)

smartLocator(options, vis) ==
    smartLocatorLoop(smartLocatorStrategies(options), 0, options.identifier, vis, EmptyRun)

RECURSIVE findByTextLoop(_, _, _, _, _)
findByTextLoop(allTexts, k, identifier, vis, run) ==
    IF k > Len(allTexts)
    THEN Finish(run, Thrown(<<"Could not find ", identifier, " by any text pattern">>))
    ELSE LET element == getByText(allTexts[k])
             tried == Query(run, element)
         IN  IF waitFor(element, vis)
             THEN Finish(Log(tried, <<"Found ", identifier, " by text: ", allTexts[k]>>),
                         Returned(element))
             ELSE findByTextLoop(allTexts, k + 1, identifier, vis, tried)

\* A faulty variant of findByText: the fallback texts are tried before the
\* primary text.
findByTextFallbacksFirst(primaryText, fallbackTexts, identifier, vis) ==
    findByTextLoop(fallbackTexts \o <<primaryText>>, 1, identifier, vis, EmptyRun)

findByText(primaryText, fallbackTexts, identifier, vis) ==
    findByTextLoop(<<primaryText>> \o fallbackTexts, 1, identifier, vis, EmptyRun)

\* The CSS selector list findInput builds from the supplied options.
\* A faulty variant of findInputSelectors: the type-only selector is built even
\* when no type is supplied.
findInputSelectorsUnguarded(options) ==
       (IF Truthy(options.type) /\ Truthy(options.name)
        THEN <<"input[type=\"" \o options.type \o "\"][name*=\"" \o options.name \o "\"]">>
        ELSE <<>>)
    \o (IF Truthy(options.id) THEN <<"input[id*=\"" \o options.id \o "\"]">> ELSE <<>>)
    \o (IF Truthy(options.name) THEN <<"input[name*=\"" \o options.name \o "\"]">> ELSE <<>>)
    \o <<"input[type=\"" \o options.type \o "\"]">>

findInputSelectors(options) ==
       (IF Truthy(options.type) /\ Truthy(options.name)
        THEN <<"input[type=\"" \o options.type \o "\"][name*=\"" \o options.name \o "\"]">>
        ELSE <<>>)
    \o (IF Truthy(options.id) THEN <<"input[id*=\"" \o options.id \o "\"]">> ELSE <<>>)
    \o (IF Truthy(options.name) THEN <<"input[name*=\"" \o options.name \o "\"]">> ELSE <<>>)
    \o (IF Truthy(options.type) THEN <<"input[type=\"" \o options.type \o "\"]">> ELSE <<>>)

\* A faulty variant of findInputLoop: the error does not name the identifier.
RECURSIVE findInputLoopAnonymous(_, _, _, _, _)
findInputLoopAnonymous(selectors, k, identifier, vis, run) ==
    IF k > Len(selectors)
    THEN Finish(run, Thrown(<<"Could not find input">>))
    ELSE IF waitFor(first(locator(selectors[k])), vis)
         THEN Finish(Query(run, first(locator(selectors[k]))),
                     Returned(first(locator(selectors[k]))))
         ELSE findInputLoopAnonymous(selectors, k + 1, identifier, vis,
                  Query(run, first(locator(selectors[k]))))

RECURSIVE findInputLoop(_, _, _, _, _)
findInputLoop(selectors, k, identifier, vis, run) ==
    IF k > Len(selectors)
    THEN Finish(run, Thrown(<<"Could not find input ", identifier>>))
    ELSE LET element == first(locator(selectors[k]))
             tried == Query(run, element)
         IN  IF waitFor(element, vis)
             THEN Finish(Log(tried, <<"Found input ", identifier, " using: ", selectors[k]>>),
                         Returned(element))
             ELSE findInputLoop(selectors, k + 1, identifier, vis, tried)

\* A faulty variant of findInput: the label lookup comes before the
\* placeholder lookup.
findInputLabelFirst(options, vis) ==
    LET selectors == findInputSelectors(options)
        byPlaceholder == getByPlaceholder(options.placeholder)
        byLabel == getByLabel(options.label)
        run1 == IF Truthy(options.label) THEN Query(EmptyRun, byLabel) ELSE EmptyRun
    IN  IF Truthy(options.label) /\ waitFor(byLabel, vis)
        THEN Finish(run1, Returned(byLabel))
        ELSE LET run2 == IF Truthy(options.placeholder)
                         THEN Query(run1, byPlaceholder) ELSE run1
             IN  IF Truthy(options.placeholder) /\ waitFor(byPlaceholder, vis)
                 THEN Finish(run2, Returned(byPlaceholder))
                 ELSE findInputLoop(selectors, 1, options.identifier, vis, run2)

findInput(options, vis) ==
    LET selectors == findInputSelectors(options)
        byPlaceholder == getByPlaceholder(options.placeholder)
        byLabel == getByLabel(options.label)
        run1 == IF Truthy(options.placeholder) THEN Query(EmptyRun, byPlaceholder) ELSE EmptyRun
    IN  IF Truthy(options.placeholder) /\ waitFor(byPlaceholder, vis)
        THEN Finish(run1, Returned(byPlaceholder))
        ELSE LET run2 == IF Truthy(options.label) THEN Query(run1, byLabel) ELSE run1
             IN  IF Truthy(options.label) /\ waitFor(byLabel, vis)
                 THEN Finish(run2, Returned(byLabel))
                 ELSE findInputLoop(selectors, 1, options.identifier, vis, run2)

\* A faulty variant of findButtonSteps: the test id comes before role + name.
findButtonStepsTestIdFirst(options) ==
       (IF Truthy(options.testId) THEN <<getByTestId(options.testId)>> ELSE <<>>)
    \o (IF Truthy(options.text) THEN <<getByRole("button", options.text)>> ELSE <<>>)
    \o (IF Truthy(options.text) THEN <<getByText(options.text)>> ELSE <<>>)
    \o (IF Truthy(options.type)
        THEN <<locator("button[type=\"" \o options.type \o "\"]")>> ELSE <<>>)

\* The queries findButton issues, in the order of its four try blocks.
findButtonSteps(options) ==
       (IF Truthy(options.text) THEN <<getByRole("button", options.text)>> ELSE <<>>)
    \o (IF Truthy(options.testId) THEN <<getByTestId(options.testId)>> ELSE <<>>)
    \o (IF Truthy(options.text) THEN <<getByText(options.text)>> ELSE <<>>)
    \o (IF Truthy(options.type)
        THEN <<locator("button[type=\"" \o options.type \o "\"]")>> ELSE <<>>)

RECURSIVE findButtonLoop(_, _, _, _, _)
findButtonLoop(steps, k, identifier, vis, run) ==
    IF k > Len(steps)
    THEN Finish(run, Thrown(<<"Could not find button ", identifier>>))
    ELSE LET element == steps[k]
             tried == Query(run, element)
         IN  IF waitFor(element, vis)
             THEN Finish(tried, Returned(element))
             ELSE findButtonLoop(steps, k + 1, identifier, vis, tried)

findButton(options, vis) ==
    findButtonLoop(findButtonSteps(options), 1, options.identifier, vis, EmptyRun)

----------------------------------------------------------------------------
(* EnhancedSelfHealingLocator: strategies and their statistics *)

\* successRate in units of 0.05.
DefaultRate == 10
InitialRate == 16
SuccessStep == 2
FailureStep == 1
MaxRate == 20
MinRate == 0

\* getLastUsed of a strategy without a record: undefined.  Recorded times are >= 1.
NoLastUsed == 0

Min(a, b) == IF a < b THEN a ELSE b
Max(a, b) == IF a > b THEN a ELSE b

\* A faulty variant of buildStrategies: role + text holds priority 0, the test id 1.
buildStrategiesRoleFirst(options) ==
       (IF Truthy(options.role) /\ Truthy(options.text)
        THEN <<[name |-> "role: " \o options.role \o " with text: " \o options.text,
                locatorFn |-> getByRole(options.role, options.text), priority |-> 0]>>
        ELSE <<>>)
    \o (IF Truthy(options.testId)
        THEN <<[name |-> "testId: " \o options.testId,
                locatorFn |-> getByTestId(options.testId), priority |-> 1]>>
        ELSE <<>>)
    \o (IF Truthy(options.label)
        THEN <<[name |-> "label: " \o options.label,
                locatorFn |-> getByLabel(options.label), priority |-> 2]>>
        ELSE <<>>)
    \o (IF Truthy(options.placeholder)
        THEN <<[name |-> "placeholder: " \o options.placeholder,
                locatorFn |-> getByPlaceholder(options.placeholder), priority |-> 3]>>
        ELSE <<>>)
    \o (IF Truthy(options.text)
        THEN <<[name |-> "text: " \o options.text,
                locatorFn |-> getByText(options.text), priority |-> 4]>>
        ELSE <<>>)
    \o (IF Truthy(options.css)
        THEN <<[name |-> "css: " \o options.css,
                locatorFn |-> locator(options.css), priority |-> 5]>>
        ELSE <<>>)
    \o (IF Truthy(options.xpath)
        THEN <<[name |-> "xpath: " \o options.xpath,
                locatorFn |-> locator(options.xpath), priority |-> 6]>>
        ELSE <<>>)

\* buildStrategies(options): name, locatorFn (the query it builds) and priority.
buildStrategies(options) ==
       (IF Truthy(options.testId)
        THEN <<[name |-> "testId: " \o options.testId,
                locatorFn |-> getByTestId(options.testId), priority |-> 0]>>
        ELSE <<>>)
    \o (IF Truthy(options.role) /\ Truthy(options.text)
        THEN <<[name |-> "role: " \o options.role \o " with text: " \o options.text,
                locatorFn |-> getByRole(options.role, options.text), priority |-> 1]>>
        ELSE <<>>)
    \o (IF Truthy(options.label)
        THEN <<[name |-> "label: " \o options.label,
                locatorFn |-> getByLabel(options.label), priority |-> 2]>>
        ELSE <<>>)
    \o (IF Truthy(options.placeholder)
        THEN <<[name |-> "placeholder: " \o options.placeholder,
                locatorFn |-> getByPlaceholder(options.placeholder), priority |-> 3]>>
        ELSE <<>>)
    \o (IF Truthy(options.text)
        THEN <<[name |-> "text: " \o options.text,
                locatorFn |-> getByText(options.text), priority |-> 4]>>
        ELSE <<>>)
    \o (IF Truthy(options.css)
        THEN <<[name |-> "css: " \o options.css,
                locatorFn |-> locator(options.css), priority |-> 5]>>
        ELSE <<>>)
    \o (IF Truthy(options.xpath)
        THEN <<[name |-> "xpath: " \o options.xpath,
                locatorFn |-> locator(options.xpath), priority |-> 6]>>
        ELSE <<>>)

\* history.find(s => s.name === name): the index of the first record, 0 if none.
findRecord(history, name) ==
    IF \E i \in DOMAIN history : history[i].name = name
    THEN CHOOSE i \in DOMAIN history :
             /\ history[i].name = name
             /\ \A j \in 1..(i - 1) : history[j].name /= name
    ELSE 0

\* strategy?.successRate || 0.5   (a rate of 0 is falsy)
getSuccessRate(history, identifier, strategyName) ==
    LET i == findRecord(history[identifier], strategyName)
    IN  IF i /= 0 /\ history[identifier][i].successRate /= 0
        THEN history[identifier][i].successRate
        ELSE DefaultRate

\* strategy?.lastUsed
getLastUsed(history, identifier, strategyName) ==
    LET i == findRecord(history[identifier], strategyName)
    IN  IF i /= 0 THEN history[identifier][i].lastUsed ELSE NoLastUsed

\* The comparator of getSortedStrategies: negative puts a first.
compareStrategies(a, b) ==
    IF a.successRate /= b.successRate
    THEN b.successRate - a.successRate
    ELSE IF a.lastUsed /= NoLastUsed /\ b.lastUsed /= NoLastUsed
         THEN b.lastUsed - a.lastUsed
         ELSE a.priority - b.priority

\* A lastUsed is a Date, written as its instant (a positive number), or,
\* once it went through JSON, the ISO string of that instant, written as the
\* negated instant: JSON.stringify turns a Date into its toISOString() and
\* JSON.parse leaves that string a string.
IsDateString(lastUsed) == lastUsed < NoLastUsed
toISOString(date) == -date

\* The comparator throws a TypeError: with equal rates and both lastUsed
\* truthy it calls .getTime() on them, which a string does not have.
compareThrows(a, b) ==
    /\ a.successRate = b.successRate
    /\ a.lastUsed /= NoLastUsed /\ b.lastUsed /= NoLastUsed
    /\ IsDateString(a.lastUsed) \/ IsDateString(b.lastUsed)

(* Array.prototype.sort as the Node.js runtime (V8) computes it for arrays   *)
(* shorter than 64: the leading run is counted (and reversed if strictly     *)
(* descending), the rest is placed by binary insertion.  With a consistent   *)
(* comparator this is the stable sort ECMAScript prescribes.                 *)
RECURSIVE runEnd(_, _, _)
runEnd(arr, descending, idx) ==
    IF idx > Len(arr) THEN idx - 1
    ELSE LET order == compareStrategies(arr[idx], arr[idx - 1])
         IN  IF (descending /\ order >= 0) \/ (~descending /\ order < 0)
             THEN idx - 1
             ELSE runEnd(arr, descending, idx + 1)

RECURSIVE reversed(_)
reversed(arr) ==
    IF arr = <<>> THEN <<>> ELSE Append(reversed(Tail(arr)), Head(arr))

reverseRun(arr, n) == reversed(SubSeq(arr, 1, n)) \o SubSeq(arr, n + 1, Len(arr))

RECURSIVE insertionPoint(_, _, _, _)
insertionPoint(arr, pivot, left, right) ==
    IF left >= right THEN left
    ELSE LET mid == left + ((right - left) \div 2)
         IN  IF compareStrategies(pivot, arr[mid]) < 0
             THEN insertionPoint(arr, pivot, left, mid)
             ELSE insertionPoint(arr, pivot, mid + 1, right)

\* arr with the element at `start` moved to `left`.
insertAt(arr, start, left) ==
    SubSeq(arr, 1, left - 1) \o <<arr[start]>> \o SubSeq(arr, left, start - 1)
        \o SubSeq(arr, start + 1, Len(arr))

RECURSIVE binaryInsertionSort(_, _)
binaryInsertionSort(arr, start) ==
    IF start > Len(arr) THEN arr
    ELSE binaryInsertionSort(
             insertAt(arr, start, insertionPoint(arr, arr[start], 1, start)),
             start + 1)

\* The array after its leading run of length n is put in ascending order.
withRun(arr, descending, n) ==
    binaryInsertionSort(IF descending THEN reverseRun(arr, n) ELSE arr, n + 1)

sort(arr) ==
    IF Len(arr) < 2 THEN arr
    ELSE withRun(arr, compareStrategies(arr[2], arr[1]) < 0,
                 runEnd(arr, compareStrategies(arr[2], arr[1]) < 0, 3))

\* Whether one of the comparisons sort(arr) makes throws; the comparisons up
\* to the first throwing one are those of sort(arr).
RECURSIVE runEndThrows(_, _, _)
runEndThrows(arr, descending, idx) ==
    IF idx > Len(arr) THEN FALSE
    ELSE IF compareThrows(arr[idx], arr[idx - 1]) THEN TRUE
    ELSE LET order == compareStrategies(arr[idx], arr[idx - 1])
         IN  IF (descending /\ order >= 0) \/ (~descending /\ order < 0)
             THEN FALSE
             ELSE runEndThrows(arr, descending, idx + 1)

RECURSIVE insertionPointThrows(_, _, _, _)
insertionPointThrows(arr, pivot, left, right) ==
    IF left >= right THEN FALSE
    ELSE LET mid == left + ((right - left) \div 2)
         IN  IF compareThrows(pivot, arr[mid]) THEN TRUE
             ELSE IF compareStrategies(pivot, arr[mid]) < 0
                  THEN insertionPointThrows(arr, pivot, left, mid)
                  ELSE insertionPointThrows(arr, pivot, mid + 1, right)

RECURSIVE binaryInsertionSortThrows(_, _)
binaryInsertionSortThrows(arr, start) ==
    IF start > Len(arr) THEN FALSE
    ELSE \/ insertionPointThrows(arr, arr[start], 1, start)
         \/ binaryInsertionSortThrows(
                insertAt(arr, start, insertionPoint(arr, arr[start], 1, start)),
                start + 1)

withRunThrows(arr, descending, n) ==
    \/ runEndThrows(arr, descending, 3)
    \/ binaryInsertionSortThrows(IF descending THEN reverseRun(arr, n) ELSE arr, n + 1)

sortThrows(arr) ==
    IF Len(arr) < 2 THEN FALSE
    ELSE \/ compareThrows(arr[2], arr[1])
         \/ withRunThrows(arr, compareStrategies(arr[2], arr[1]) < 0,
                          runEnd(arr, compareStrategies(arr[2], arr[1]) < 0, 3))

\* strategies.map(strategy => ({...strategy, successRate, lastUsed}))
RECURSIVE withStatistics(_, _, _)
withStatistics(history, identifier, strategies) ==
    IF strategies = <<>> THEN <<>>
    ELSE LET strategy == Head(strategies)
         IN  <<[name |-> strategy.name,
                locatorFn |-> strategy.locatorFn,
                priority |-> strategy.priority,
                successRate |-> getSuccessRate(history, identifier, strategy.name),
                lastUsed |-> getLastUsed(history, identifier, strategy.name)]>>
             \o withStatistics(history, identifier, Tail(strategies))

\* getSortedStrategies(identifier, strategies)
getSortedStrategies(history, identifier, strategies) ==
    sort(withStatistics(history, identifier, strategies))

\* A faulty variant of recordSuccess: the raised rate is not capped.
recordSuccessUncapped(history, identifier, strategy, time) ==
    LET i == findRecord(history[identifier], strategy.name)
    IN  IF i /= 0
        THEN [history EXCEPT ![identifier][i] =
                 [@ EXCEPT !.successRate = @ + SuccessStep, !.lastUsed = time]]
        ELSE [history EXCEPT ![identifier] =
                 Append(@, [name |-> strategy.name,
                            selector |-> "",
                            priority |-> strategy.priority,
                            successRate |-> InitialRate,
                            lastUsed |-> time])]

\* A faulty variant of recordSuccess: a record is pushed on every success.
recordSuccessAlwaysPushes(history, identifier, strategy, time) ==
    [history EXCEPT ![identifier] =
        Append(@, [name |-> strategy.name,
                   selector |-> "",
                   priority |-> strategy.priority,
                   successRate |-> InitialRate,
                   lastUsed |-> time])]

\* recordSuccess(identifier, strategy), `time` being new Date()
recordSuccess(history, identifier, strategy, time) ==
    LET i == findRecord(history[identifier], strategy.name)
    IN  IF i /= 0
        THEN [history EXCEPT ![identifier][i] =
                 [@ EXCEPT !.successRate = Min(MaxRate, @ + SuccessStep),
                           !.lastUsed = time]]
        ELSE [history EXCEPT ![identifier] =
                 Append(@, [name |-> strategy.name,
                            selector |-> "",
                            priority |-> strategy.priority,
                            successRate |-> InitialRate,
                            lastUsed |-> time])]

\* A faulty variant of recordFailure: a success rate of 0.0 is lowered further.
recordFailureUnfloored(history, identifier, strategy) ==
    LET i == findRecord(history[identifier], strategy.name)
    IN  IF i /= 0
        THEN [history EXCEPT ![identifier][i].successRate = @ - FailureStep]
        ELSE history

\* recordFailure(identifier, strategy): only an existing record is changed.
recordFailure(history, identifier, strategy) ==
    LET i == findRecord(history[identifier], strategy.name)
    IN  IF i /= 0
        THEN [history EXCEPT ![identifier][i].successRate = Max(MinRate, @ - FailureStep)]
        ELSE history

----------------------------------------------------------------------------
(* EnhancedSelfHealingLocator: fingerprints and recovery *)

\* The attributes a fingerprint is read for; an attribute the element lacks
\* reads as undefined.
AttributeNames == {"id", "class", "name", "type", "role", "data-testid", "placeholder"}
NoAttributes == [a \in AttributeNames |-> UNDEF]

\* elementFingerprints.get(identifier) of an identifier without fingerprint;
\* also what getElementFingerprint yields when it throws.
NoFingerprint ==
    [tag |-> "", attributes |-> NoAttributes, textContent |-> UNDEF,
     position |-> <<>>, dimensions |-> <<>>]

PositionTolerance == 50
ContextTolerance == 100

Abs(n) == IF n < 0 THEN -n ELSE n

\* String.prototype.includes
Contains(s, sub) ==
    \E i \in 1..(Len(s) - Len(sub) + 1) : SubSeq(s, i, i + Len(sub) - 1) = sub

\* s.split(' ')[0]
FirstToken(s) ==
    IF \E i \in 1..Len(s) : SubSeq(s, i, i) = " "
    THEN LET sp == CHOOSE i \in 1..Len(s) :
                       /\ SubSeq(s, i, i) = " "
                       /\ \A j \in 1..(i - 1) : SubSeq(s, j, j) /= " "
         IN  SubSeq(s, 1, sp - 1)
    ELSE s

\* locator.all() yields the matches as nth(0), nth(1), ...
all(query) == query \o <<"all">>
nth(query, n) == query \o <<"nth", ToString(n)>>

\* A faulty variant of learnElementCharacteristics: the first fingerprint
\* learned for an identifier is never replaced.
learnElementCharacteristicsOnce(fingerprints, identifier, seen) ==
    IF seen = NoFingerprint \/ fingerprints[identifier] /= NoFingerprint
    THEN fingerprints
    ELSE [fingerprints EXCEPT ![identifier] = seen]

\* learnElementCharacteristics(identifier, locator); `seen` is what
\* getElementFingerprint reads from the page (NoFingerprint: it threw).
learnElementCharacteristics(fingerprints, identifier, seen) ==
    IF seen = NoFingerprint
    THEN fingerprints
    ELSE [fingerprints EXCEPT ![identifier] = seen]

\* A faulty variant of isSimilarElement: the tags are not compared.
isSimilarElementAnyTag(reference, candidate) ==
    LET keyAttrs == {"id", "class", "name", "type", "role", "data-testid"}
        attributeMatches ==
            Cardinality({attr \in keyAttrs :
                /\ Truthy(reference.attributes[attr])
                /\ Truthy(candidate.attributes[attr])
                /\ reference.attributes[attr] = candidate.attributes[attr]})
    IN  \/ attributeMatches >= 2
        \/ reference.textContent = candidate.textContent
        \/ /\ reference.position /= <<>> /\ candidate.position /= <<>>
           /\ Abs(reference.position[1] - candidate.position[1]) < PositionTolerance
           /\ Abs(reference.position[2] - candidate.position[2]) < PositionTolerance

isSimilarElement(reference, candidate) ==
    IF reference.tag /= candidate.tag THEN FALSE
    ELSE LET keyAttrs == {"id", "class", "name", "type", "role", "data-testid"}
             attributeMatches ==
                 Cardinality({attr \in keyAttrs :
                     /\ Truthy(reference.attributes[attr])
                     /\ Truthy(candidate.attributes[attr])
                     /\ reference.attributes[attr] = candidate.attributes[attr]})
             textSimilar == reference.textContent = candidate.textContent
             positionSimilar ==
                 IF reference.position /= <<>> /\ candidate.position /= <<>>
                 THEN /\ Abs(reference.position[1] - candidate.position[1]) < PositionTolerance
                      /\ Abs(reference.position[2] - candidate.position[2]) < PositionTolerance
                 ELSE FALSE
         IN  attributeMatches >= 2 \/ textSimilar \/ positionSimilar

\* The loops of the three recovery techniques.  `dom` is the page's elements in
\* document order, each with its fingerprint and whether it is visible.
RECURSIVE visualLoop(_, _, _, _)
visualLoop(fingerprint, dom, k, run) ==
    IF k > Len(dom) THEN run
    ELSE LET candidate == nth(locator("*"), k - 1)
         IN  IF isSimilarElement(fingerprint, dom[k].fingerprint)
             THEN IF dom[k].visible
                  THEN Finish(Query(run, candidate), Returned(candidate))
                  ELSE visualLoop(fingerprint, dom, k + 1, Query(run, candidate))
             ELSE visualLoop(fingerprint, dom, k + 1, run)

findByVisualSimilarity(fingerprints, enabled, identifier, dom, run) ==
    IF ~enabled THEN run
    ELSE IF fingerprints[identifier] = NoFingerprint THEN run
    ELSE visualLoop(fingerprints[identifier], dom, 1, Query(run, all(locator("*"))))

attributeVariations(fingerprint) ==
    <<fingerprint.tag \o "[class*=\""
          \o (IF Truthy(fingerprint.attributes["class"])
              THEN FirstToken(fingerprint.attributes["class"]) ELSE "")
          \o "\"]",
      fingerprint.tag \o "[type=\""
          \o (IF Truthy(fingerprint.attributes["type"])
              THEN fingerprint.attributes["type"] ELSE "")
          \o "\"]",
      fingerprint.tag \o "[name*=\""
          \o (IF Truthy(fingerprint.attributes["name"])
              THEN fingerprint.attributes["name"] ELSE "")
          \o "\"]">>

RECURSIVE attributeLoop(_, _, _, _)
attributeLoop(variations, k, vis, run) ==
    IF k > Len(variations) THEN run
    ELSE IF Contains(variations[k], "\"\"")
         THEN attributeLoop(variations, k + 1, vis, run)
         ELSE LET loc == first(locator(variations[k]))
              IN  IF waitFor(loc, vis)
                  THEN Finish(Query(run, loc), Returned(loc))
                  ELSE attributeLoop(variations, k + 1, vis, Query(run, loc))

findByAttributeSimilarity(fingerprints, identifier, vis, run) ==
    IF fingerprints[identifier] = NoFingerprint THEN run
    ELSE attributeLoop(attributeVariations(fingerprints[identifier]), 1, vis, run)

RECURSIVE positionalLoop(_, _, _, _)
positionalLoop(fingerprint, elements, k, run) ==
    IF k > Len(elements) THEN run
    ELSE LET element == nth(locator(fingerprint.tag), k - 1)
             boundingBox == elements[k].fingerprint.position
         IN  IF /\ boundingBox /= <<>>
                /\ Abs(boundingBox[1] - fingerprint.position[1]) < ContextTolerance
                /\ Abs(boundingBox[2] - fingerprint.position[2]) < ContextTolerance
             THEN IF elements[k].visible
                  THEN Finish(Query(run, element), Returned(element))
                  ELSE positionalLoop(fingerprint, elements, k + 1, Query(run, element))
             ELSE positionalLoop(fingerprint, elements, k + 1, run)

withTag(dom, tag) == SelectSeq(dom, LAMBDA e : e.fingerprint.tag = tag)

findByPositionalContext(fingerprints, identifier, dom, run) ==
    IF fingerprints[identifier] = NoFingerprint THEN run
    ELSE IF fingerprints[identifier].position = <<>> THEN run
    ELSE LET fingerprint == fingerprints[identifier]
         IN  positionalLoop(fingerprint, withTag(dom, fingerprint.tag), 1,
                            Query(run, all(locator(fingerprint.tag))))

\* tryAIRecovery(identifier) once the visual match is known, and once the
\* attribute match is known.
afterAttributeMatch(fingerprints, identifier, dom, attributeMatch) ==
    IF attributeMatch.result.kind = "locator" THEN attributeMatch
    ELSE findByPositionalContext(fingerprints, identifier, dom, attributeMatch)

afterVisualMatch(fingerprints, identifier, vis, dom, visualMatch) ==
    IF visualMatch.result.kind = "locator" THEN visualMatch
    ELSE afterAttributeMatch(fingerprints, identifier, dom,
             findByAttributeSimilarity(fingerprints, identifier, vis, visualMatch))

\* A faulty variant of tryAIRecovery: attribute similarity first, then
\* positional context, then visual similarity.
tryAIRecoveryAttributeFirst(fingerprints, enabled, identifier, vis, dom, run) ==
    LET attributeMatch == findByAttributeSimilarity(fingerprints, identifier, vis, run)
    IN  IF attributeMatch.result.kind = "locator" THEN attributeMatch
        ELSE LET positionMatch ==
                     findByPositionalContext(fingerprints, identifier, dom, attributeMatch)
             IN  IF positionMatch.result.kind = "locator" THEN positionMatch
                 ELSE findByVisualSimilarity(fingerprints, enabled, identifier, dom,
                                             positionMatch)

\* tryAIRecovery(identifier): the run is left Pending when all three yield null.
tryAIRecovery(fingerprints, enabled, identifier, vis, dom, run) ==
    afterVisualMatch(fingerprints, identifier, vis, dom,
        findByVisualSimilarity(fingerprints, enabled, identifier, dom, run))

\* tryLearnedPattern(identifier): the locator built from the fingerprint, or null.
tryLearnedPattern(fingerprints, identifier) ==
    IF fingerprints[identifier] = NoFingerprint THEN NoLocator
    ELSE LET fingerprint == fingerprints[identifier]
         IN  locator(fingerprint.tag \o
                 (IF Truthy(fingerprint.attributes["id"])
                  THEN "#" \o fingerprint.attributes["id"]
                  ELSE IF Truthy(fingerprint.attributes["class"])
                       THEN "." \o FirstToken(fingerprint.attributes["class"])
                       ELSE ""))

----------------------------------------------------------------------------
(* EnhancedSelfHealingLocator: the resolution operations *)

\* A call in progress on the enhanced locator: its run and the two stores.
\* `attempted` lists the names of the ranked strategies tried so far.
Progress(run, attempted, history, fingerprints) ==
    [run |-> run, attempted |-> attempted,
     strategyHistory |-> history, elementFingerprints |-> fingerprints]

\* for (const strategy of sortedStrategies) { try {...} catch {...} }
RECURSIVE rankedLoop(_, _, _, _, _, _, _, _)
rankedLoop(sortedStrategies, k, identifier, enabled, time, vis, seen, st) ==
    IF k > Len(sortedStrategies) THEN st
    ELSE LET strategy == sortedStrategies[k]
             loc == strategy.locatorFn
             tried == Query(st.run, loc)
         IN  IF waitFor(loc, vis)
             THEN Progress(
                      Finish(IF strategy.priority > 0
                             THEN Log(tried, <<"Self-healed ", identifier,
                                               " using: ", strategy.name>>)
                             ELSE tried,
                             Returned(loc)),
                      Append(st.attempted, strategy.name),
                      recordSuccess(st.strategyHistory, identifier, strategy, time),
                      IF enabled
                      THEN learnElementCharacteristics(st.elementFingerprints, identifier, seen)
                      ELSE st.elementFingerprints)
             ELSE rankedLoop(sortedStrategies, k + 1, identifier, enabled, time, vis, seen,
                      Progress(tried,
                               Append(st.attempted, strategy.name),
                               recordFailure(st.strategyHistory, identifier, strategy),
                               st.elementFingerprints))

\* The final fallback: the original locator, called without an identifier when
\* role and text are given, else findInput with type 'text' and name = label.
originalSelfHealing(options, vis) ==
    IF Truthy(options.role) /\ Truthy(options.text)
    THEN smartLocator([role |-> options.role, text |-> options.text,
                       placeholder |-> options.placeholder, label |-> options.label,
                       testId |-> options.testId, css |-> options.css,
                       xpath |-> options.xpath, identifier |-> UNDEF], vis)
    ELSE findInput([type |-> "text", identifier |-> options.identifier,
                    placeholder |-> options.placeholder, name |-> options.label,
                    id |-> UNDEF, label |-> UNDEF], vis)

\* run followed by the queries and log lines of `inner`, with inner's outcome.
Then(run, inner) ==
    [queried |-> run.queried \o inner.queried,
     logs |-> run.logs \o inner.logs,
     result |-> inner.result]

\* The end of smartLocatorWithLearning: the final fallback, `announced` being
\* the run so far and `original` the run of the original locator.
finalFallback(ranked, identifier, announced, original) ==
    [ranked EXCEPT !.run =
        IF original.result.kind = "error"
        THEN Finish(Then(announced, original),
                    Thrown(<<"All strategies failed for ", identifier,
                             ": Enhanced and original both failed">>))
        ELSE Then(announced, original)]

\* A faulty variant of afterRecovery: a failed recovery ends the call at once,
\* the original locator is not consulted.
afterRecoveryTerminal(ranked, options, late, aiLocator) ==
    IF aiLocator.result.kind = "locator"
    THEN [ranked EXCEPT !.run = Log(aiLocator, <<"AI-recovered ", options.identifier>>)]
    ELSE [ranked EXCEPT !.run =
             Finish(Log(aiLocator, <<"Falling back to original self-healing for ",
                                     options.identifier>>),
                    Thrown(<<"All strategies failed for ", options.identifier,
                             ": Enhanced and original both failed">>))]

\* smartLocatorWithLearning after the AI-based recovery attempt.
afterRecovery(ranked, options, late, aiLocator) ==
    IF aiLocator.result.kind = "locator"
    THEN [ranked EXCEPT !.run = Log(aiLocator, <<"AI-recovered ", options.identifier>>)]
    ELSE finalFallback(ranked, options.identifier,
             Log(aiLocator, <<"Falling back to original self-healing for ",
                              options.identifier>>),
             originalSelfHealing(options, late))

\* smartLocatorWithLearning after the loop over the sorted strategies.
afterRanked(ranked, enabled, options, dom, late) ==
    IF ranked.run.result.kind = "locator" THEN ranked
    ELSE afterRecovery(ranked, options, late,
             IF enabled
             THEN tryAIRecovery(ranked.elementFingerprints, enabled, options.identifier,
                                late, dom, ranked.run)
             ELSE ranked.run)

(* smartLocatorWithLearning(options).  The page's part: `vis` while the      *)
(* ranked strategies are tried, `seen` the fingerprint read from the matched *)
(* element, `dom` and `late` the page's elements and visible queries during  *)
(* recovery and the final fallback.                                          *)
\* The TypeError the comparator of getSortedStrategies throws.
GetTimeTypeError == Thrown(<<"TypeError: b.lastUsed.getTime is not a function">>)

\* smartLocatorWithLearning(options): getSortedStrategies is called outside
\* any try, so a throw of its comparator rejects the call before any query.
smartLocatorWithLearning(history, fingerprints, enabled, time, options, vis, seen, dom, late) ==
    IF sortThrows(withStatistics(history, options.identifier, buildStrategies(options)))
    THEN Progress(Finish(EmptyRun, GetTimeTypeError), <<>>, history, fingerprints)
    ELSE afterRanked(
             rankedLoop(getSortedStrategies(history, options.identifier,
                                            buildStrategies(options)),
                        1, options.identifier, enabled, time, vis, seen,
                        Progress(EmptyRun, <<>>, history, fingerprints)),
             enabled, options, dom, late)

\* findInputWithLearning when the learned pattern was absent or not visible.
afterLearnedPattern(tried, smart) == [smart EXCEPT !.run = Then(tried, smart.run)]

\* findInputWithLearning once tryLearnedPattern has answered.
withLearnedLocator(history, fingerprints, enabled, time, options, early, vis, seen, dom, late, learnedLocator, tried) ==
    IF learnedLocator /= NoLocator /\ waitFor(learnedLocator, early)
    THEN Progress(Finish(Log(tried, <<"Used learned pattern for ", options.identifier>>),
                         Returned(learnedLocator)),
                  <<>>, history, fingerprints)
    ELSE afterLearnedPattern(tried,
             smartLocatorWithLearning(history, fingerprints, enabled, time,
                 [role |-> "textbox", text |-> UNDEF,
                  placeholder |-> options.placeholder,
                  label |-> options.label, testId |-> UNDEF,
                  css |-> UNDEF, xpath |-> UNDEF,
                  identifier |-> options.identifier],
                 vis, seen, dom, late))

\* A faulty variant of findInputWithLearning: the stored fingerprint is not
\* consulted before the caller's candidates.
findInputWithLearningCandidatesOnly(history, fingerprints, enabled, time, options, early, vis, seen, dom, late) ==
    afterLearnedPattern(
        Log(EmptyRun, <<"Finding input with learning: ", options.identifier>>),
        smartLocatorWithLearning(history, fingerprints, enabled, time,
            [role |-> "textbox", text |-> UNDEF,
             placeholder |-> options.placeholder,
             label |-> options.label, testId |-> UNDEF,
             css |-> UNDEF, xpath |-> UNDEF,
             identifier |-> options.identifier],
            vis, seen, dom, late))

(* findInputWithLearning(options): the learned pattern first (`early` is     *)
(* what is visible while it is waited for), then smartLocatorWithLearning    *)
(* with role 'textbox'.                                                      *)
findInputWithLearning(history, fingerprints, enabled, time, options, early, vis, seen, dom, late) ==
    LET started == Log(EmptyRun, <<"Finding input with learning: ", options.identifier>>)
        learnedLocator == tryLearnedPattern(fingerprints, options.identifier)
    IN  withLearnedLocator(history, fingerprints, enabled, time, options, early, vis, seen,
                           dom, late, learnedLocator,
                           IF learnedLocator /= NoLocator
                           THEN Query(started, learnedLocator) ELSE started)

----------------------------------------------------------------------------
(* EnhancedSelfHealingLocator: persistence *)

\* JSON.stringify of a strategy record: a Date becomes its ISO string.
RECURSIVE stringifyRecords(_)
stringifyRecords(records) ==
    IF records = <<>> THEN <<>>
    ELSE <<[Head(records) EXCEPT
               !.lastUsed = IF @ > NoLastUsed THEN toISOString(@) ELSE @]>>
         \o stringifyRecords(Tail(records))

\* exportLearningData(): the JSON text of both stores.
exportLearningData(history, fingerprints) ==
    [kind |-> "object",
     strategies |-> [id \in DOMAIN history |-> stringifyRecords(history[id])],
     fingerprints |-> fingerprints]

Void == [kind |-> "void", locator |-> NoLocator, message |-> <<>>]

\* A faulty variant of importLearningData: the imported entries are merged
\* into the stores, and an identifier the data does not name keeps its entry.
importLearningDataMerging(history, fingerprints, data) ==
    IF data.kind \in {"garbage", "null"}
    THEN Progress(Finish(Log(EmptyRun, <<"Failed to import learning data:">>), Void),
                  <<>>, history, fingerprints)
    ELSE Progress(Finish(EmptyRun, Void), <<>>,
                  [id \in DOMAIN history |->
                      IF data.strategies[id] = <<>> THEN history[id]
                      ELSE data.strategies[id]],
                  [id \in DOMAIN fingerprints |->
                      IF data.fingerprints[id] = NoFingerprint THEN fingerprints[id]
                      ELSE data.fingerprints[id]])

\* importLearningData(data): JSON.parse throws on garbage and reading
\* parsed.strategies throws on null; the catch logs a warning and both stores
\* stay.  Otherwise both stores are replaced by what was parsed.
importLearningData(history, fingerprints, data) ==
    IF data.kind \in {"garbage", "null"}
    THEN Progress(Finish(Log(EmptyRun, <<"Failed to import learning data:">>), Void),
                  <<>>, history, fingerprints)
    ELSE Progress(Finish(EmptyRun, Void), <<>>, data.strategies, data.fingerprints)

----------------------------------------------------------------------------
(* The state machine *)

\* Bounds of the model.
MaxTime == 2
MaxHistory == 1

Identifiers == {"LoginButton", "SaudiIdInput"}

\* lastCall: the operation, its arguments, the page it met and what it did.
NoPage == [early |-> {}, vis |-> {}, seen |-> NoFingerprint, dom |-> <<>>, late |-> {}]

NoCall ==
    [op |-> "none", options |-> <<>>, early |-> {}, vis |-> {}, seen |-> NoFingerprint,
     dom |-> <<>>, late |-> {}, queried |-> <<>>,
     attempted |-> <<>>, logs |-> <<>>, result |-> Pending]

\* `page` is what the page showed the call: `vis` to the caller's candidates
\* (`early` to a learned pattern tried before them), `seen` as the matched
\* element's fingerprint, `dom` and `late` after the candidates.
Call(op, options, page, run, attempted) ==
    [op |-> op, options |-> options, early |-> page.early, vis |-> page.vis,
     seen |-> page.seen, dom |-> page.dom, late |-> page.late,
     queried |-> run.queried, attempted |-> attempted,
     logs |-> run.logs, result |-> run.result]

\* new SelfHealingLocator(page) and new EnhancedSelfHealingLocator(page, options)
Constructed(enableAILearning) ==
    /\ locatorHistory = [id \in Identifiers |-> <<>>]
    /\ strategyHistory = [id \in Identifiers |-> <<>>]
    /\ elementFingerprints = [id \in Identifiers |-> NoFingerprint]
    /\ aiLearningEnabled = enableAILearning
    /\ now = 1
    /\ lastCall = NoCall

\* The clock advances between calls.
Tick ==
    /\ now < MaxTime
    /\ now' = now + 1
    /\ UNCHANGED <<locatorHistory, strategyHistory, elementFingerprints,
                   aiLearningEnabled, lastCall>>

FindElement(primarySelector, fallbackSelectors, identifier, vis) ==
    \E out \in {findElement(primarySelector, fallbackSelectors, identifier, vis)} :
        /\ out.healed /= UNDEF => Len(locatorHistory[identifier]) < MaxHistory
        /\ locatorHistory' =
               IF out.healed /= UNDEF
               THEN updateLocatorHistory(locatorHistory, identifier, out.healed)
               ELSE locatorHistory
        /\ lastCall' = Call("findElement",
                            [primarySelector |-> primarySelector,
                             fallbackSelectors |-> fallbackSelectors,
                             identifier |-> identifier],
                            [NoPage EXCEPT !.vis = vis], out.run, <<>>)
        /\ UNCHANGED <<strategyHistory, elementFingerprints, aiLearningEnabled, now>>

SmartLocator(options, vis) ==
    /\ lastCall' = Call("smartLocator", options, [NoPage EXCEPT !.vis = vis],
                        smartLocator(options, vis), <<>>)
    /\ UNCHANGED <<locatorHistory, strategyHistory, elementFingerprints,
                   aiLearningEnabled, now>>

FindByText(primaryText, fallbackTexts, identifier, vis) ==
    /\ lastCall' = Call("findByText",
                        [primaryText |-> primaryText, fallbackTexts |-> fallbackTexts,
                         identifier |-> identifier],
                        [NoPage EXCEPT !.vis = vis],
                        findByText(primaryText, fallbackTexts, identifier, vis), <<>>)
    /\ UNCHANGED <<locatorHistory, strategyHistory, elementFingerprints,
                   aiLearningEnabled, now>>

FindInput(options, vis) ==
    /\ lastCall' = Call("findInput", options, [NoPage EXCEPT !.vis = vis],
                        findInput(options, vis), <<>>)
    /\ UNCHANGED <<locatorHistory, strategyHistory, elementFingerprints,
                   aiLearningEnabled, now>>

FindButton(options, vis) ==
    /\ lastCall' = Call("findButton", options, [NoPage EXCEPT !.vis = vis],
                        findButton(options, vis), <<>>)
    /\ UNCHANGED <<locatorHistory, strategyHistory, elementFingerprints,
                   aiLearningEnabled, now>>

SmartLocatorWithLearning(options, vis, seen, dom, late) ==
    \E out \in {smartLocatorWithLearning(strategyHistory, elementFingerprints,
                   aiLearningEnabled, now, options, vis, seen, dom, late)} :
        /\ strategyHistory' = out.strategyHistory
        /\ elementFingerprints' = out.elementFingerprints
        /\ lastCall' = Call("smartLocatorWithLearning", options,
                            [early |-> {}, vis |-> vis, seen |-> seen, dom |-> dom,
                             late |-> late],
                            out.run, out.attempted)
        /\ UNCHANGED <<locatorHistory, aiLearningEnabled, now>>

FindInputWithLearning(options, early, vis, seen, dom, late) ==
    \E out \in {findInputWithLearning(strategyHistory, elementFingerprints,
                   aiLearningEnabled, now, options, early, vis, seen, dom, late)} :
        /\ strategyHistory' = out.strategyHistory
        /\ elementFingerprints' = out.elementFingerprints
        /\ lastCall' = Call("findInputWithLearning", options,
                            [early |-> early, vis |-> vis, seen |-> seen, dom |-> dom,
                             late |-> late],
                            out.run, out.attempted)
        /\ UNCHANGED <<locatorHistory, aiLearningEnabled, now>>

\* The texts importLearningData is given.  "garbage" is not JSON; "null" is
\* the JSON text null; "object" is the text of an object, `strategies` and
\* `fingerprints` being what JSON.parse gives for those keys ({} for a key the
\* object lacks, by `|| {}`).  A fingerprint holds strings and numbers only,
\* and a field that is undefined is left out and reads as undefined again.
Garbage ==
    [kind |-> "garbage", strategies |-> [id \in Identifiers |-> <<>>],
     fingerprints |-> [id \in Identifiers |-> NoFingerprint]]
NullText == [Garbage EXCEPT !.kind = "null"]
EmptyObjectText == [Garbage EXCEPT !.kind = "object"]

ExportLearningData ==
    /\ lastCall' = Call("exportLearningData",
                        [data |-> exportLearningData(strategyHistory, elementFingerprints)],
                        NoPage, Finish(EmptyRun, Void), <<>>)
    /\ UNCHANGED <<locatorHistory, strategyHistory, elementFingerprints,
                   aiLearningEnabled, now>>

ImportLearningData(data) ==
    \E out \in {importLearningData(strategyHistory, elementFingerprints, data)} :
        /\ strategyHistory' = out.strategyHistory
        /\ elementFingerprints' = out.elementFingerprints
        /\ lastCall' = Call("importLearningData", [data |-> data], NoPage, out.run, <<>>)
        /\ UNCHANGED <<locatorHistory, aiLearningEnabled, now>>

----------------------------------------------------------------------------
(* The calls the model makes *)

\* Every way of supplying or omitting smartLocator's seven fields.
AllSmartOptions ==
    [role : {UNDEF, "button"}, text : {UNDEF, "Login"},
     placeholder : {UNDEF, "Saudi ID"}, label : {UNDEF, "National ID"},
     testId : {UNDEF, "login-btn"}, css : {UNDEF, ".login-button"},
     xpath : {UNDEF, "//button"}, identifier : {"LoginButton"}]

SmartFields == {"role", "text", "placeholder", "label", "testId", "css", "xpath"}
Supplied(options) == {f \in SmartFields : Truthy(options[f])}
SmartOptionsWith(fieldSets) == {o \in AllSmartOptions : Supplied(o) \in fieldSets}

AllInputOptions ==
    [type : {UNDEF, "text"}, name : {UNDEF, "saudiId"}, id : {UNDEF, "sid"},
     placeholder : {UNDEF, "Saudi ID"}, label : {UNDEF, "National ID"},
     identifier : {"SaudiIdInput"}]

InputFields == {"type", "name", "id", "placeholder", "label"}
InputOptionsWith(fieldSets) ==
    {o \in AllInputOptions : {f \in InputFields : Truthy(o[f])} \in fieldSets}

AllButtonOptions ==
    [text : {UNDEF, "Login"}, type : {UNDEF, "submit"}, testId : {UNDEF, "login-btn"},
     identifier : {"LoginButton"}]

\* The queries findInput may issue.
findInputQueries(options) ==
         (IF Truthy(options.placeholder) THEN {getByPlaceholder(options.placeholder)} ELSE {})
    \cup (IF Truthy(options.label) THEN {getByLabel(options.label)} ELSE {})
    \cup {first(locator(sel)) : sel \in Range(findInputSelectors(options))}

\* The queries the final fallback of smartLocatorWithLearning may issue.
originalQueries(options) ==
    IF Truthy(options.role) /\ Truthy(options.text)
    THEN Range(smartLocatorStrategies(options))
    ELSE findInputQueries([type |-> "text", placeholder |-> options.placeholder,
                           name |-> options.label, id |-> UNDEF, label |-> UNDEF])

\* Page elements and fingerprints.
LoginButtonPrint ==
    [tag |-> "button",
     attributes |-> [NoAttributes EXCEPT !["class"] = "login-button primary",
                                         !["type"] = "submit"],
     textContent |-> "Login", position |-> <<100, 200>>, dimensions |-> <<80, 30>>]

Doms == {<<>>, <<[fingerprint |-> LoginButtonPrint, visible |-> TRUE]>>}

----------------------------------------------------------------------------
(* Spec: both locators as constructed by default, every operation, on small *)
(* inputs.                                                                  *)

Init == Constructed(FALSE)

CallFindElement ==
    \E fallbackSelectors \in {<<>>, <<"button[type=\"submit\"]", "#login">>} :
    \E vis \in SUBSET Range(<<"button.login-btn">> \o fallbackSelectors) :
        FindElement("button.login-btn", fallbackSelectors, "LoginButton",
                    {locator(sel) : sel \in vis})

CallSmartLocator ==
    \E options \in SmartOptionsWith({{}, {"role", "text", "testId"}}) :
    \E vis \in SUBSET Range(smartLocatorStrategies(options)) :
        SmartLocator(options, vis)

CallFindByText ==
    \E fallbackTexts \in {<<>>, <<"Sign in", "Log in">>} :
    \E vis \in SUBSET Range(<<"Login">> \o fallbackTexts) :
        FindByText("Login", fallbackTexts, "LoginButton", {getByText(t) : t \in vis})

CallFindInput ==
    \E options \in InputOptionsWith({{}, {"placeholder", "label", "type"}}) :
    \E vis \in SUBSET findInputQueries(options) :
        FindInput(options, vis)

CallFindButton ==
    \E options \in {o \in AllButtonOptions : Truthy(o.text) = Truthy(o.type)} :
    \E vis \in SUBSET Range(findButtonSteps(options)) :
        FindButton(options, vis)

CallSmartLocatorWithLearning ==
    \E options \in SmartOptionsWith({{"css"}, {"role", "text", "css"}}) :
    \E vis \in SUBSET {locator(options.css)}, late \in SUBSET originalQueries(options) :
        SmartLocatorWithLearning(options, vis, NoFingerprint, <<>>, late)

CallFindInputWithLearning ==
    \E options \in InputOptionsWith({{"placeholder", "label"}}) :
    \E vis \in {{}},
       late \in SUBSET originalQueries(
                   [role |-> "textbox", text |-> UNDEF,
                    placeholder |-> options.placeholder, label |-> options.label]) :
        FindInputWithLearning(options, {}, vis, NoFingerprint, <<>>, late)

Next ==
    \/ CallFindElement
    \/ CallSmartLocator
    \/ CallFindByText
    \/ CallFindInput
    \/ CallFindButton
    \/ CallSmartLocatorWithLearning
    \/ CallFindInputWithLearning

Spec == Init /\ [][Next]_vars

----------------------------------------------------------------------------
(* SpecSmart: smartLocator on every combination of its fields and every     *)
(* page.                                                                    *)

NextSmart ==
    \E options \in AllSmartOptions :
    \E vis \in SUBSET Range(smartLocatorStrategies(options)) :
        SmartLocator(options, vis)

SpecSmart == Init /\ [][NextSmart]_vars

----------------------------------------------------------------------------
(* SpecLearn: the enhanced locator's statistics over repeated calls for one *)
(* identifier, as wall-clock time passes.  Of the ranked queries the page   *)
(* can show the test id and the css selector.                               *)

LearnOptions == SmartOptionsWith({{"testId"}, {"css"}, {"testId", "label", "css"}})

LearnNext ==
    \/ \E options \in LearnOptions :
       \E vis \in SUBSET {s.locatorFn : s \in {s \in Range(buildStrategies(options)) :
                                                  s.priority \in {0, 5}}} :
           SmartLocatorWithLearning(options, vis, NoFingerprint, <<>>, {})
    \/ \E options \in SmartOptionsWith({SmartFields}) :
           SmartLocatorWithLearning(options, {}, NoFingerprint, <<>>, {})
    \/ Tick

SpecLearn == Init /\ [][LearnNext]_vars

----------------------------------------------------------------------------
(* SpecFinders: findInput and findButton on every combination of their      *)
(* fields and every page.                                                   *)

ButtonFields == {"text", "type", "testId"}

NextFinders ==
    \/ \E options \in AllInputOptions :
       \E vis \in SUBSET findInputQueries(options) :
           FindInput(options, vis)
    \/ \E options \in AllButtonOptions :
       \E vis \in SUBSET Range(findButtonSteps(options)) :
           FindButton(options, vis)

SpecFinders == Init /\ [][NextFinders]_vars

----------------------------------------------------------------------------
(* SpecAI: the enhanced locator constructed with enableAILearning: true, as  *)
(* LoginPage constructs it.  The page holds buttons that resemble the        *)
(* learned login button in different ways.                                   *)

\* The login button after a re-render: same first class token, new text, moved.
MovedLoginButtonPrint ==
    [tag |-> "button",
     attributes |-> [NoAttributes EXCEPT !["class"] = "login-button large",
                                         !["type"] = "submit"],
     textContent |-> "Sign in", position |-> <<400, 200>>, dimensions |-> <<120, 40>>]

\* Another button, close to where the login button was.
CancelButtonPrint ==
    [tag |-> "button",
     attributes |-> [NoAttributes EXCEPT !["class"] = "btn-secondary",
                                         !["type"] = "button"],
     textContent |-> "Cancel", position |-> <<120, 210>>, dimensions |-> <<80, 30>>]

\* A button further away, sharing no attribute with the login button.
FarButtonPrint ==
    [tag |-> "button",
     attributes |-> [NoAttributes EXCEPT !["class"] = "icon", !["type"] = "reset"],
     textContent |-> "Go", position |-> <<180, 260>>, dimensions |-> <<20, 20>>]

SaudiIdInputPrint ==
    [tag |-> "input",
     attributes |-> [NoAttributes EXCEPT !["class"] = "form-control wide",
                                         !["type"] = "text",
                                         !["placeholder"] = "Saudi ID"],
     textContent |-> UNDEF, position |-> <<100, 100>>, dimensions |-> <<200, 30>>]

Shown(fingerprint) == [fingerprint |-> fingerprint, visible |-> TRUE]
Hidden(fingerprint) == [fingerprint |-> fingerprint, visible |-> FALSE]

AIDoms ==
    {<<>>,
     <<Shown(LoginButtonPrint)>>,
     <<Shown(MovedLoginButtonPrint)>>,
     <<Hidden(MovedLoginButtonPrint)>>,
     <<Shown(CancelButtonPrint), Shown(MovedLoginButtonPrint)>>,
     <<Shown(FarButtonPrint)>>,
     <<Hidden(CancelButtonPrint), Shown(FarButtonPrint)>>}

\* Whether a page element matches the k-th selector of
\* findByAttributeSimilarity: tag[class*="token"], tag[type="v"], tag[name*="v"].
matchesVariation(element, fingerprint, k) ==
    /\ element.tag = fingerprint.tag
    /\ CASE k = 1 -> /\ Truthy(element.attributes["class"])
                     /\ Truthy(fingerprint.attributes["class"])
                     /\ Contains(element.attributes["class"],
                                 FirstToken(fingerprint.attributes["class"]))
         [] k = 2 -> /\ Truthy(fingerprint.attributes["type"])
                     /\ element.attributes["type"] = fingerprint.attributes["type"]
         [] k = 3 -> /\ Truthy(element.attributes["name"])
                     /\ Truthy(fingerprint.attributes["name"])
                     /\ Contains(element.attributes["name"], fingerprint.attributes["name"])

\* The selectors of findByAttributeSimilarity whose first match in `dom` is
\* visible: locator(selector).first().waitFor succeeds exactly for these.
attributeVisible(dom, fingerprint) ==
    IF fingerprint = NoFingerprint THEN {}
    ELSE {first(locator(attributeVariations(fingerprint)[k])) : k \in
             {k \in 1..3 : \E i \in DOMAIN dom :
                 /\ matchesVariation(dom[i].fingerprint, fingerprint, k)
                 /\ dom[i].visible
                 /\ \A j \in 1..(i - 1) :
                        ~matchesVariation(dom[j].fingerprint, fingerprint, k)}}

\* new EnhancedSelfHealingLocator(page, {enableAILearning}), either way.
InitAI == \E enableAILearning \in BOOLEAN : Constructed(enableAILearning)

AIButtonOptions == SmartOptionsWith({{"css"}})

\* getLoginButton: the css candidate is found (and a fingerprint read or
\* not), or it is not and recovery meets one of the pages.
AICallSmartLocatorWithLearning ==
    \E options \in AIButtonOptions :
        \/ \E seen \in {NoFingerprint, LoginButtonPrint, MovedLoginButtonPrint} :
               SmartLocatorWithLearning(options, {locator(options.css)}, seen, <<>>, {})
        \/ \E dom \in AIDoms, original \in SUBSET originalQueries(options) :
               SmartLocatorWithLearning(options, {}, NoFingerprint, dom,
                   attributeVisible(dom, elementFingerprints[options.identifier])
                       \cup original)

AIInputOptions == InputOptionsWith({{"placeholder", "label"}})

\* getSaudiIdInput on a page that shows the placeholder, and may show what
\* the learned pattern selects.
AICallFindInputWithLearning ==
    \E options \in AIInputOptions :
    \E early \in SUBSET ({tryLearnedPattern(elementFingerprints, options.identifier)}
                          \ {NoLocator}) :
    \E seen \in {NoFingerprint, SaudiIdInputPrint} :
        FindInputWithLearning(options, early, {getByPlaceholder(options.placeholder)},
                              seen, <<>>, {})

NextAI ==
    \/ AICallSmartLocatorWithLearning
    \/ AICallFindInputWithLearning

SpecAI == InitAI /\ [][NextAI]_vars

----------------------------------------------------------------------------
(* Persistence: the login button is resolved by test id or css on pages that *)
(* show one of the two, and the learning data is exported and imported.  A   *)
(* selector that imports what it has just exported stands for the fresh      *)
(* selector the data is carried to: import replaces both stores and nothing  *)
(* else of a selector depends on its past.                                   *)

InitPersist == Constructed(TRUE)

PersistOptions == SmartOptionsWith({{"testId"}, {"css"}, {"testId", "css"}})

PersistCallSmartLocatorWithLearning ==
    \E options \in PersistOptions :
    \E shown \in Range(buildStrategies(options)) :
    \E vis \in {{shown.locatorFn}}, seen \in {LoginButtonPrint} :
        SmartLocatorWithLearning(options, vis, seen, <<>>, {})

\* The text given to import: what export has just returned, or another text.
PersistCallImportLearningData ==
    \E data \in {Garbage, NullText, EmptyObjectText}
                 \cup {lastCall.options.data : x \in {y \in {lastCall.op} :
                                                         y = "exportLearningData"}} :
        ImportLearningData(data)

NextPersist ==
    \/ PersistCallSmartLocatorWithLearning
    \/ ExportLearningData
    \/ PersistCallImportLearningData
    \/ Tick

SpecPersist == InitPersist /\ [][NextPersist]_vars

----------------------------------------------------------------------------
(* Similarity: the login button is learned from one of two elements, and     *)
(* recovery then meets a page whose only element differs from it in tag,     *)
(* attributes, text or position.                                             *)

SimilarReferences ==
    {LoginButtonPrint, [LoginButtonPrint EXCEPT !.textContent = UNDEF, !.position = <<>>]}

SimilarCandidates ==
    {[tag |-> tag,
      attributes |-> [NoAttributes EXCEPT !["class"] = class, !["type"] = type],
      textContent |-> textContent, position |-> position, dimensions |-> <<80, 30>>] :
        tag \in {"button", "a"}, class \in {UNDEF, "login-button primary"},
        type \in {UNDEF, "submit"}, textContent \in {UNDEF, "Login"},
        position \in {<<>>, <<149, 249>>, <<150, 200>>, <<400, 200>>}}

SimilarCallLearn ==
    \E options \in AIButtonOptions, seen \in SimilarReferences :
        SmartLocatorWithLearning(options, {locator(options.css)}, seen, <<>>, {})

SimilarCallRecover ==
    \E options \in AIButtonOptions, candidate \in SimilarCandidates :
        SmartLocatorWithLearning(options, {}, NoFingerprint, <<Shown(candidate)>>,
            attributeVisible(<<Shown(candidate)>>, elementFingerprints[options.identifier]))

NextSimilar ==
    \/ SimilarCallLearn
    \/ SimilarCallRecover

SpecSimilar == InitPersist /\ [][NextSimilar]_vars

----------------------------------------------------------------------------
(* LoginPage: navigation with retries.  The page object holds both locators, *)
(* the enhanced one constructed with enableAILearning: true.                 *)

maxRetries == 3
AttemptText == <<"1", "2", "3">>

\* How one navigation attempt ends: page.goto and the load state are reached;
\* one of them times out; or the page, context or browser is closed, after
\* which every call on the page rejects.
NavigationOutcomes == {"loaded", "timeout", "closed"}

ClosedError == Thrown(<<"Target page, context or browser has been closed">>)

SaudiIdInputOptions ==
    [identifier |-> "SaudiIdInput", type |-> "text", name |-> "id",
     placeholder |-> "Saudi ID", label |-> "Saudi ID", id |-> "saudi-id-input"]

LoginButtonOptions ==
    [identifier |-> "LoginButton", role |-> "button", text |-> "/Login/i",
     testId |-> "login-button", css |-> "button[type=\"submit\"], .login-btn, .btn-primary",
     placeholder |-> UNDEF, label |-> UNDEF, xpath |-> UNDEF]

\* getSaudiIdInput(): findInputWithLearning, and findInput when that throws.
getSaudiIdInput(history, fingerprints, enabled, time, page) ==
    LET learned == findInputWithLearning(history, fingerprints, enabled, time,
                       SaudiIdInputOptions, page.early, page.vis, page.seen,
                       page.dom, page.late)
    IN  IF learned.run.result.kind = "locator" THEN learned
        ELSE [learned EXCEPT !.run =
                 Then(Log(learned.run,
                          <<"Falling back to original self-healing for SaudiIdInput">>),
                      findInput([type |-> "text", name |-> "id",
                                 placeholder |-> "Saudi ID", label |-> "Saudi ID",
                                 id |-> UNDEF, identifier |-> "SaudiIdInput"],
                                page.late))]

\* getLoginButton(): smartLocatorWithLearning, and findButton when that throws.
getLoginButton(history, fingerprints, enabled, time, page) ==
    LET learned == smartLocatorWithLearning(history, fingerprints, enabled, time,
                       LoginButtonOptions, page.vis, page.seen, page.dom, page.late)
    IN  IF learned.run.result.kind = "locator" THEN learned
        ELSE [learned EXCEPT !.run =
                 Then(Log(learned.run,
                          <<"Falling back to original self-healing for LoginButton">>),
                      findButton([text |-> "/Login/i", type |-> "submit",
                                  testId |-> "login-button",
                                  identifier |-> "LoginButton"],
                                 page.late))]

\* waitForPageLoad() once the load state is reached: both elements are looked
\* for, the button only when the input was found, and a failure is logged.
waitForPageLoad(history, fingerprints, enabled, time, form) ==
    LET input == getSaudiIdInput(history, fingerprints, enabled, time, form.input)
        button == getLoginButton(input.strategyHistory, input.elementFingerprints,
                                 enabled, time, form.button)
        notFound == <<"Login form elements not found - might be after failed login or different page state">>
    IN  IF input.run.result.kind = "error"
        THEN [input EXCEPT !.run = Finish(Log(input.run, notFound), Void)]
        ELSE [button EXCEPT !.run =
                 IF button.run.result.kind = "error"
                 THEN Finish(Log(Then(input.run, button.run), notFound), Void)
                 ELSE Finish(Then(input.run, button.run), Void)]

\* for (let attempt = 1; attempt <= maxRetries; attempt++) { try {...} catch {...} }
\* script[attempt] is how the attempt ends; the wait in the catch block is
\* outside any try of its own, and rejects on a closed page.
RECURSIVE gotoLoop(_, _, _, _, _, _, _, _)
gotoLoop(script, attempt, run, history, fingerprints, enabled, time, form) ==
    IF attempt > maxRetries
    THEN Progress(Finish(Log(run, <<"Navigation failed - skipping to avoid blocking tests">>),
                         Void),
                  <<>>, history, fingerprints)
    ELSE LET started == Query(Log(run, <<"Navigation attempt ", AttemptText[attempt],
                                         "/", AttemptText[maxRetries], "...">>),
                              <<"page.goto", "/login">>)
             failed == Log(started, <<"Navigation attempt ", AttemptText[attempt],
                                      " failed:">>)
             waited == Query(failed, <<"page.waitForTimeout", "2000">>)
         IN  IF script[attempt] = "loaded"
             THEN LET load == waitForPageLoad(history, fingerprints, enabled, time, form)
                  IN  [load EXCEPT !.run =
                          Log(Then(started, load.run), <<"Navigation successful">>)]
             ELSE IF attempt < maxRetries
                  THEN IF script[attempt] = "closed"
                       THEN Progress(Finish(waited, ClosedError), <<>>, history, fingerprints)
                       ELSE gotoLoop(script, attempt + 1, waited, history, fingerprints,
                                     enabled, time, form)
                  ELSE gotoLoop(script, attempt + 1, failed, history, fingerprints,
                                enabled, time, form)

\* LoginPage.goto()
goto(history, fingerprints, enabled, time, script, form) ==
    gotoLoop(script, 1, EmptyRun, history, fingerprints, enabled, time, form)

Goto(script, form) ==
    \E out \in {goto(strategyHistory, elementFingerprints, aiLearningEnabled, now,
                     script, form)} :
        /\ strategyHistory' = out.strategyHistory
        /\ elementFingerprints' = out.elementFingerprints
        /\ lastCall' = Call("goto", [script |-> script, form |-> form], NoPage,
                            out.run, <<>>)
        /\ UNCHANGED <<locatorHistory, aiLearningEnabled, now>>

\* The login page once loaded: without the form, or with the input found by
\* its placeholder and the button by its test id.
LoginForms ==
    {[input |-> NoPage, button |-> NoPage],
     [input |-> [NoPage EXCEPT !.vis = {getByPlaceholder("Saudi ID")},
                               !.seen = SaudiIdInputPrint],
      button |-> [NoPage EXCEPT !.vis = {getByTestId("login-button")},
                                !.seen = LoginButtonPrint]]}

\* A page that was closed stays closed.
CallGoto ==
    \E script \in [1..maxRetries -> NavigationOutcomes], form \in LoginForms :
        /\ \A i \in 1..(maxRetries - 1) : script[i] = "closed" => script[i + 1] = "closed"
        /\ Goto(script, form)

NextGoto == CallGoto

SpecGoto == InitPersist /\ [][NextGoto]_vars

----------------------------------------------------------------------------
(* Properties *)

\* Whether the i-th query of the last call met a visible element: the ranked
\* strategies of the enhanced locator meet `vis`, what follows them `late`.
VisibleWhenQueried(i) ==
    IF /\ lastCall.op \in {"smartLocatorWithLearning", "findInputWithLearning"}
       /\ i > Len(lastCall.attempted)
    THEN lastCall.queried[i] \in lastCall.late
    ELSE lastCall.queried[i] \in lastCall.vis

\* C1: in smartLocator, findElement, findByText, findButton and
\* smartLocatorWithLearning, a candidate whose wait-for-visible succeeds is the
\* last query of the call and its locator is what the call returns; so when
\* the first candidate succeeds exactly one candidate is attempted.
C1_FirstSuccessReturns ==
    lastCall.op \in {"smartLocator", "findElement", "findByText", "findButton",
                     "smartLocatorWithLearning"}
    => \A i \in DOMAIN lastCall.queried :
           VisibleWhenQueried(i)
           => /\ i = Len(lastCall.queried)
              /\ lastCall.result = Returned(lastCall.queried[i])

\* A call won by its first candidate while later candidates were visible too.
C1_Witness ==
    /\ lastCall.op = "smartLocator"
    /\ Cardinality(lastCall.vis) = 3
    /\ lastCall.queried = <<getByRole("button", "Login")>>
    /\ lastCall.result = Returned(getByRole("button", "Login"))

\* The candidates of a smartLocator call in the documented order (role + text,
\* test id, label, placeholder, text, css, xpath), omitted fields left out.
DocumentedCandidates(options) ==
    LET order == <<[needs |-> {"role", "text"},
                    query |-> getByRole(options.role, options.text)],
                   [needs |-> {"testId"}, query |-> getByTestId(options.testId)],
                   [needs |-> {"label"}, query |-> getByLabel(options.label)],
                   [needs |-> {"placeholder"}, query |-> getByPlaceholder(options.placeholder)],
                   [needs |-> {"text"}, query |-> getByText(options.text)],
                   [needs |-> {"css"}, query |-> locator(options.css)],
                   [needs |-> {"xpath"}, query |-> locator(options.xpath)]>>
        given == SelectSeq(order, LAMBDA c : c.needs \subseteq Supplied(options))
    IN  [i \in 1..Len(given) |-> given[i].query]

IsPrefix(s, t) == Len(s) <= Len(t) /\ s = SubSeq(t, 1, Len(s))

\* C2: smartLocator queries the candidates of the supplied fields in the order
\* role + text, test id, label, placeholder, text, css, xpath, and returns the
\* first of them that is visible; failed candidates before it do not fail the
\* call, which throws only when none is visible.
C2_SmartLocatorOrder ==
    lastCall.op = "smartLocator"
    => LET candidates == DocumentedCandidates(lastCall.options)
           visible == {i \in DOMAIN candidates : candidates[i] \in lastCall.vis}
       IN  /\ IsPrefix(lastCall.queried, candidates)
           /\ visible /= {}
              => \E i \in visible :
                    /\ \A j \in visible : i <= j
                    /\ Len(lastCall.queried) = i
                    /\ lastCall.result = Returned(candidates[i])
           /\ visible = {}
              => /\ lastCall.queried = candidates
                 /\ lastCall.result.kind = "error"

\* All seven fields supplied, only the xpath visible: six recovered failures.
C2_Witness ==
    /\ lastCall.op = "smartLocator"
    /\ Supplied(lastCall.options) = SmartFields
    /\ lastCall.vis = {locator("//button")}
    /\ Len(lastCall.queried) = 7
    /\ lastCall.result = Returned(locator("//button"))

\* C3: when no candidate of a smartLocator, findElement, findByText, findInput
\* or findButton call becomes visible, the call throws an error whose message
\* names the identifier, and returns no locator.
C3_ExhaustionThrows ==
    /\ lastCall.op \in {"smartLocator", "findElement", "findByText", "findInput",
                        "findButton"}
    /\ \A i \in DOMAIN lastCall.queried : lastCall.queried[i] \notin lastCall.vis
    => /\ lastCall.result.kind = "error"
       /\ lastCall.result.locator = NoLocator
       /\ lastCall.options.identifier \in Range(lastCall.result.message)

\* findInput with placeholder, label and type, none of them visible.
C3_Witness ==
    /\ lastCall.op = "findInput"
    /\ Len(lastCall.queried) = 3
    /\ lastCall.vis = {}
    /\ lastCall.result.kind = "error"

\* Strategy Records as the properties read them.
HasRecord(history, identifier, name) == findRecord(history[identifier], name) /= 0
RecordedRate(history, identifier, name) ==
    history[identifier][findRecord(history[identifier], name)].successRate
RecordedLastUsed(history, identifier, name) ==
    history[identifier][findRecord(history[identifier], name)].lastUsed

\* The rate a candidate is said to start from: its record's, 0.5 if untried.
RateBefore(history, identifier, name) ==
    IF HasRecord(history, identifier, name)
    THEN RecordedRate(history, identifier, name)
    ELSE DefaultRate

\* A step that is a smartLocatorWithLearning call: the unprimed state is the
\* one the call starts in, lastCall' what it did.
LearningCallStep == lastCall'.op = "smartLocatorWithLearning" /\ now' = now

\* The call was won by one of its ranked candidates (the last one attempted).
RankedSuccess ==
    /\ lastCall'.result.kind = "locator"
    /\ lastCall'.attempted /= <<>>
    /\ Len(lastCall'.queried) = Len(lastCall'.attempted)

\* The positions in lastCall'.attempted of the candidates that failed.
FailedAttempts ==
    IF RankedSuccess THEN 1..(Len(lastCall'.attempted) - 1)
    ELSE DOMAIN lastCall'.attempted

\* C4: if two candidates of the call have records when it starts and B's
\* recorded rate is strictly higher than A's, A is attempted only after B.
C4_HigherRateFirst ==
    [][LearningCallStep
       => LET identifier == lastCall'.options.identifier
              attempted == lastCall'.attempted
          IN  \A a \in DOMAIN attempted :
              \A B \in {s.name : s \in Range(buildStrategies(lastCall'.options))} :
                  /\ HasRecord(strategyHistory, identifier, attempted[a])
                  /\ HasRecord(strategyHistory, identifier, B)
                  /\ RecordedRate(strategyHistory, identifier, B)
                         > RecordedRate(strategyHistory, identifier, attempted[a])
                  => \E b \in 1..(a - 1) : attempted[b] = B]_vars

\* C5 as stated: a successful attempt raises the candidate's rate by 0.1 from
\* its value before the attempt, 0.5 if it was untried, capped at 1.0, and
\* sets its last-used time to now.
C5_SuccessRaisesFromDefault ==
    [][LearningCallStep /\ RankedSuccess
       => LET identifier == lastCall'.options.identifier
              winner == lastCall'.attempted[Len(lastCall'.attempted)]
          IN  /\ HasRecord(strategyHistory', identifier, winner)
              /\ RecordedRate(strategyHistory', identifier, winner)
                     = Min(MaxRate, RateBefore(strategyHistory, identifier, winner)
                                        + SuccessStep)
              /\ RecordedLastUsed(strategyHistory', identifier, winner) = now]_vars

\* C5 (amended): a successful attempt of a candidate that has a record raises
\* the recorded rate by 0.1, capped at 1.0; a successful attempt of a
\* candidate without a record creates its record with rate 0.8; either way
\* the record's last-used time is now.
C5_SuccessRaisesRecord ==
    [][LearningCallStep /\ RankedSuccess
       => LET identifier == lastCall'.options.identifier
              winner == lastCall'.attempted[Len(lastCall'.attempted)]
          IN  /\ HasRecord(strategyHistory', identifier, winner)
              /\ RecordedRate(strategyHistory', identifier, winner)
                     = IF HasRecord(strategyHistory, identifier, winner)
                       THEN Min(MaxRate, RecordedRate(strategyHistory, identifier, winner)
                                             + SuccessStep)
                       ELSE InitialRate
              /\ RecordedLastUsed(strategyHistory', identifier, winner) = now]_vars

\* A call, made after time has passed, won by a candidate whose record the
\* success raised to the cap.
C5_Witness ==
    /\ lastCall.op = "smartLocatorWithLearning"
    /\ lastCall.result.kind = "locator"
    /\ lastCall.attempted = <<"css: .login-button">>
    /\ now = MaxTime
    /\ RecordedRate(strategyHistory, "LoginButton", "css: .login-button") = MaxRate
    /\ RecordedLastUsed(strategyHistory, "LoginButton", "css: .login-button") = now

\* C6: every failed attempt, the first-ever attempt of a candidate included,
\* leaves a record for the candidate whose rate is 0.05 lower than before the
\* attempt (0.5 if untried), floored at 0.0.
C6_FailureLowersRecord ==
    [][LearningCallStep
       => LET identifier == lastCall'.options.identifier
          IN  \A k \in FailedAttempts :
                  /\ HasRecord(strategyHistory', identifier, lastCall'.attempted[k])
                  /\ RecordedRate(strategyHistory', identifier, lastCall'.attempted[k])
                         = Max(MinRate, RateBefore(strategyHistory, identifier,
                                                   lastCall'.attempted[k])
                                            - FailureStep)]_vars

\* Every recorded success rate lies in [0, 1].
RatesInRange ==
    \A identifier \in DOMAIN strategyHistory :
    \A i \in DOMAIN strategyHistory[identifier] :
        /\ strategyHistory[identifier][i].successRate >= MinRate
        /\ strategyHistory[identifier][i].successRate <= MaxRate

\* C7: every recorded success rate lies in [0, 1] in every reachable state; a
\* success never lowers the winning candidate's rate and a failure never
\* raises the failed candidate's rate, so neither do runs of them.
C7_RatesBoundedMonotone ==
    /\ []RatesInRange
    /\ [][LearningCallStep
          => LET identifier == lastCall'.options.identifier
                 attempted == lastCall'.attempted
             IN  /\ RankedSuccess
                    => RecordedRate(strategyHistory', identifier, attempted[Len(attempted)])
                           >= RateBefore(strategyHistory, identifier, attempted[Len(attempted)])
                 /\ \A k \in FailedAttempts :
                        HasRecord(strategyHistory', identifier, attempted[k])
                        => RecordedRate(strategyHistory', identifier, attempted[k])
                               <= RateBefore(strategyHistory, identifier, attempted[k])]_vars

\* One candidate held at the cap by a success, another at the floor by a failure.
C7_Witness ==
    /\ lastCall.op = "smartLocatorWithLearning"
    /\ lastCall.attempted = <<"testId: login-btn", "label: National ID", "css: .login-button">>
    /\ HasRecord(strategyHistory, "LoginButton", "testId: login-btn")
    /\ HasRecord(strategyHistory, "LoginButton", "css: .login-button")
    /\ RecordedRate(strategyHistory, "LoginButton", "testId: login-btn") = MaxRate - FailureStep
    /\ RecordedRate(strategyHistory, "LoginButton", "css: .login-button") = MinRate

\* C8: the rate candidates are ordered by is the recorded rate of every
\* candidate that has a record, a record at 0.0 included, and the default 0.5
\* of a candidate only if it has no record.
C8_OrderingRateIsRecorded ==
    \A identifier \in DOMAIN strategyHistory :
    \A name \in {"testId: login-btn", "label: National ID", "css: .login-button"} :
        getSuccessRate(strategyHistory, identifier, name)
            = IF HasRecord(strategyHistory, identifier, name)
              THEN RecordedRate(strategyHistory, identifier, name)
              ELSE DefaultRate

PriorityCandidates(options) ==
    LET order == <<[needs |-> {"testId"}, query |-> getByTestId(options.testId)],
                   [needs |-> {"role", "text"},
                    query |-> getByRole(options.role, options.text)],
                   [needs |-> {"label"}, query |-> getByLabel(options.label)],
                   [needs |-> {"placeholder"}, query |-> getByPlaceholder(options.placeholder)],
                   [needs |-> {"text"}, query |-> getByText(options.text)],
                   [needs |-> {"css"}, query |-> locator(options.css)],
                   [needs |-> {"xpath"}, query |-> locator(options.xpath)]>>
        given == SelectSeq(order, LAMBDA c : c.needs \subseteq Supplied(options))
    IN  [i \in 1..Len(given) |-> given[i].query]

\* The queries of the call's ranked candidates, in the order attempted.
RankedQueries == SubSeq(lastCall'.queried, 1, Len(lastCall'.attempted))

\* C10 as stated: with no statistics recorded for the identifier, the
\* candidates are attempted in the order role + name, test id, label,
\* placeholder, text, css, xpath.
C10_RoleFirstWithoutStatistics ==
    [][LearningCallStep /\ strategyHistory[lastCall'.options.identifier] = <<>>
       => IsPrefix(RankedQueries, DocumentedCandidates(lastCall'.options))]_vars

\* C10 (amended): with no statistics recorded for the identifier, the
\* candidates are attempted in the order test id, role + name, label,
\* placeholder, text, css, xpath.
C10_TestIdFirstWithoutStatistics ==
    [][LearningCallStep /\ strategyHistory[lastCall'.options.identifier] = <<>>
       => IsPrefix(RankedQueries, PriorityCandidates(lastCall'.options))]_vars

\* All seven candidates attempted, none visible, nothing recorded.
C10_Witness ==
    /\ lastCall.op = "smartLocatorWithLearning"
    /\ Len(lastCall.attempted) = 7
    /\ lastCall.attempted[1] = "testId: login-btn"
    /\ lastCall.attempted[2] = "role: button with text: Login"
    /\ strategyHistory["LoginButton"] = <<>>

\* The fields of the last findInput or findButton call that were supplied.
FinderFields(call) ==
    IF call.op = "findInput" THEN {f \in InputFields : Truthy(call.options[f])}
    ELSE {f \in ButtonFields : Truthy(call.options[f])}

\* C16: findInput and findButton called with no field but the identifier
\* raise an error and issue no page query or wait.
C16_NoFieldNoQuery ==
    lastCall.op \in {"findInput", "findButton"} /\ FinderFields(lastCall) = {}
    => /\ lastCall.queried = <<>>
       /\ lastCall.result.kind = "error"
       /\ lastCall.result.locator = NoLocator

\* findButton with the identifier alone.
C16_Witness ==
    /\ lastCall.op = "findButton"
    /\ FinderFields(lastCall) = {}
    /\ lastCall.queried = <<>>
    /\ lastCall.result.kind = "error"

\* C17: the error of a findInput or findButton call given no field differs
\* from the error of a call of the same finder, for the same identifier,
\* whose candidates were tried and all failed.
C17_ValidationErrorDistinct ==
    [][/\ lastCall.op \in {"findInput", "findButton"}
       /\ FinderFields(lastCall) = {}
       /\ lastCall.result.kind = "error"
       /\ lastCall'.op = lastCall.op
       /\ lastCall'.options.identifier = lastCall.options.identifier
       /\ lastCall'.queried /= <<>>
       /\ lastCall'.result.kind = "error"
       => lastCall'.result /= lastCall.result]_vars

\* The candidates of a findInput call in the order placeholder, label,
\* type + name, id, name, type, omitted fields left out.
SemanticFirstInputCandidates(options) ==
    LET order == <<[needs |-> {"placeholder"}, query |-> getByPlaceholder(options.placeholder)],
                   [needs |-> {"label"}, query |-> getByLabel(options.label)],
                   [needs |-> {"type", "name"},
                    query |-> first(locator("input[type=\"" \o options.type
                                            \o "\"][name*=\"" \o options.name \o "\"]"))],
                   [needs |-> {"id"},
                    query |-> first(locator("input[id*=\"" \o options.id \o "\"]"))],
                   [needs |-> {"name"},
                    query |-> first(locator("input[name*=\"" \o options.name \o "\"]"))],
                   [needs |-> {"type"},
                    query |-> first(locator("input[type=\"" \o options.type \o "\"]"))]>>
        given == SelectSeq(order, LAMBDA c :
                     c.needs \subseteq {f \in InputFields : Truthy(options[f])})
    IN  [i \in 1..Len(given) |-> given[i].query]

\* The last call queried `candidates` in order and returned the first visible
\* one, failing only when none is visible.
FirstVisibleOf(candidates) ==
    LET visible == {i \in DOMAIN candidates : candidates[i] \in lastCall.vis}
    IN  /\ IsPrefix(lastCall.queried, candidates)
        /\ visible /= {}
           => \E i \in visible :
                 /\ \A j \in visible : i <= j
                 /\ Len(lastCall.queried) = i
                 /\ lastCall.result = Returned(candidates[i])
        /\ visible = {}
           => /\ lastCall.queried = candidates
              /\ lastCall.result.kind = "error"

StructuralFirstInputCandidates(options) ==
    LET order == <<[needs |-> {"type", "name"},
                    query |-> first(locator("input[type=\"" \o options.type
                                            \o "\"][name*=\"" \o options.name \o "\"]"))],
                   [needs |-> {"id"},
                    query |-> first(locator("input[id*=\"" \o options.id \o "\"]"))],
                   [needs |-> {"name"},
                    query |-> first(locator("input[name*=\"" \o options.name \o "\"]"))],
                   [needs |-> {"placeholder"}, query |-> getByPlaceholder(options.placeholder)],
                   [needs |-> {"label"}, query |-> getByLabel(options.label)],
                   [needs |-> {"type"},
                    query |-> first(locator("input[type=\"" \o options.type \o "\"]"))]>>
        given == SelectSeq(order, LAMBDA c :
                     c.needs \subseteq {f \in InputFields : Truthy(options[f])})
    IN  [i \in 1..Len(given) |-> given[i].query]

\* C19: findInput tries type + name, then id, then name, then the
\* placeholder lookup, then the label lookup, then type-only.
C19_FindInputStructuralFirst ==
    lastCall.op = "findInput"
    => IsPrefix(lastCall.queried, StructuralFirstInputCandidates(lastCall.options))

\* The candidates of a findButton call in the order role 'button' + name,
\* test id, text, button[type].
ButtonCandidates(options) ==
    LET order == <<[needs |-> {"text"}, query |-> getByRole("button", options.text)],
                   [needs |-> {"testId"}, query |-> getByTestId(options.testId)],
                   [needs |-> {"text"}, query |-> getByText(options.text)],
                   [needs |-> {"type"},
                    query |-> locator("button[type=\"" \o options.type \o "\"]")]>>
        given == SelectSeq(order, LAMBDA c :
                     c.needs \subseteq {f \in ButtonFields : Truthy(options[f])})
    IN  [i \in 1..Len(given) |-> given[i].query]

\* C20: findButton tries the role 'button' + name query (if text is given),
\* the test id query, the text query and the button[type] query, in this
\* order, and returns the first that is visible.
C20_FindButtonOrder ==
    lastCall.op = "findButton" => FirstVisibleOf(ButtonCandidates(lastCall.options))

\* Text, test id and type supplied, only button[type] visible.
C20_Witness ==
    /\ lastCall.op = "findButton"
    /\ FinderFields(lastCall) = ButtonFields
    /\ lastCall.vis = {locator("button[type=\"submit\"]")}
    /\ Len(lastCall.queried) = 4
    /\ lastCall.result = Returned(locator("button[type=\"submit\"]"))

\* The page queries the three recovery techniques can issue for `fingerprint`
\* on a page of Len(dom) elements.
RecoveryQueries(fingerprint, dom) ==
         {all(locator("*")), all(locator(fingerprint.tag))}
    \cup {nth(locator("*"), k - 1) : k \in DOMAIN dom}
    \cup {nth(locator(fingerprint.tag), k - 1) : k \in DOMAIN dom}
    \cup {first(locator(v)) : v \in Range(attributeVariations(fingerprint))}

\* The queries of the last smartLocatorWithLearning call after its ranked
\* candidates: those of recovery, and those after recovery.
AfterRanked ==
    SubSeq(lastCall.queried, Len(lastCall.attempted) + 1, Len(lastCall.queried))
RecoveryPart ==
    SelectSeq(AfterRanked, LAMBDA q :
        q \in RecoveryQueries(elementFingerprints[lastCall.options.identifier], lastCall.dom))
AfterRecoveryPart ==
    SubSeq(AfterRanked, Len(RecoveryPart) + 1, Len(AfterRanked))

\* The last call went past its ranked candidates and past recovery.
FellBack ==
    /\ lastCall.op = "smartLocatorWithLearning"
    /\ <<"Falling back to original self-healing for ", lastCall.options.identifier>>
           \in Range(lastCall.logs)

SecondPassCandidates(options) ==
    IF Truthy(options.role) /\ Truthy(options.text)
    THEN DocumentedCandidates(options)
    ELSE SemanticFirstInputCandidates(
             [type |-> "text", placeholder |-> options.placeholder,
              name |-> options.label, id |-> UNDEF, label |-> UNDEF])

QueryTechnique(q) ==
    IF q[1] = "first" THEN "attribute"
    ELSE IF q[2] = "*" THEN "visual"
    ELSE "positional"

\* The last call ran similarity recovery with a stored fingerprint.
RecoveryRan ==
    /\ lastCall.op = "smartLocatorWithLearning"
    /\ aiLearningEnabled
    /\ elementFingerprints[lastCall.options.identifier] /= NoFingerprint
    /\ \/ FellBack
       \/ <<"AI-recovered ", lastCall.options.identifier>> \in Range(lastCall.logs)

Recovered ==
    <<"AI-recovered ", lastCall.options.identifier>> \in Range(lastCall.logs)

\* The queries of recovery come technique by technique in the order `rank`
\* gives, and a recovered call returns the match of its last query.
RecoveryInOrder(rank) ==
    /\ \A i, j \in DOMAIN RecoveryPart :
           i < j => rank[QueryTechnique(RecoveryPart[i])]
                        <= rank[QueryTechnique(RecoveryPart[j])]
    /\ Recovered
       => /\ RecoveryPart /= <<>>
          /\ AfterRanked = RecoveryPart
          /\ lastCall.result = Returned(RecoveryPart[Len(RecoveryPart)])

\* What each technique finds on the page of the last call (0: nothing).
VisualMatch ==
    LET fingerprint == elementFingerprints[lastCall.options.identifier]
        found == {k \in DOMAIN lastCall.dom :
                     /\ isSimilarElement(fingerprint, lastCall.dom[k].fingerprint)
                     /\ lastCall.dom[k].visible}
    IN  IF found = {} THEN 0 ELSE CHOOSE k \in found : \A m \in found : k <= m
AttributeMatch ==
    LET variations == attributeVariations(elementFingerprints[lastCall.options.identifier])
        found == {k \in DOMAIN variations :
                     /\ ~Contains(variations[k], "\"\"")
                     /\ first(locator(variations[k])) \in lastCall.late}
    IN  IF found = {} THEN 0 ELSE CHOOSE k \in found : \A m \in found : k <= m
PositionMatch ==
    LET fingerprint == elementFingerprints[lastCall.options.identifier]
        elements == withTag(lastCall.dom, fingerprint.tag)
        found == {k \in DOMAIN elements :
                     /\ fingerprint.position /= <<>>
                     /\ elements[k].fingerprint.position /= <<>>
                     /\ Abs(elements[k].fingerprint.position[1] - fingerprint.position[1])
                            < ContextTolerance
                     /\ Abs(elements[k].fingerprint.position[2] - fingerprint.position[2])
                            < ContextTolerance
                     /\ elements[k].visible}
    IN  IF found = {} THEN 0 ELSE CHOOSE k \in found : \A m \in found : k <= m

\* C12 as stated: recovery runs attribute similarity, then positional
\* context, then general similarity, returns the match of the first technique
\* that succeeds without running a later one, and yields nothing only if all
\* three fail.
C12_AttributeFirst ==
    RecoveryRan
    => /\ RecoveryInOrder([attribute |-> 1, positional |-> 2, visual |-> 3])
       /\ FellBack => VisualMatch = 0 /\ AttributeMatch = 0 /\ PositionMatch = 0

\* C12 (amended): recovery runs general (visual) similarity, then attribute
\* similarity, then positional context, returns the match of the first
\* technique that succeeds without running a later one, and yields nothing
\* only if all three fail.
C12_VisualFirst ==
    RecoveryRan
    => LET fingerprint == elementFingerprints[lastCall.options.identifier]
       IN  /\ RecoveryInOrder([visual |-> 1, attribute |-> 2, positional |-> 3])
           /\ FellBack <=> (VisualMatch = 0 /\ AttributeMatch = 0 /\ PositionMatch = 0)
           /\ VisualMatch /= 0
              => lastCall.result = Returned(nth(locator("*"), VisualMatch - 1))
           /\ VisualMatch = 0 /\ AttributeMatch /= 0
              => lastCall.result =
                     Returned(first(locator(attributeVariations(fingerprint)[AttributeMatch])))
           /\ VisualMatch = 0 /\ AttributeMatch = 0 /\ PositionMatch /= 0
              => lastCall.result =
                     Returned(nth(locator(fingerprint.tag), PositionMatch - 1))

\* A page on which all three techniques would find the learned button: the
\* visual match is returned and no other technique queries the page.
C12_Witness ==
    /\ RecoveryRan
    /\ VisualMatch /= 0 /\ AttributeMatch /= 0 /\ PositionMatch /= 0
    /\ RecoveryPart = <<all(locator("*")), nth(locator("*"), 0)>>
    /\ lastCall.result = Returned(nth(locator("*"), 0))

\* The visible elements of the last call's page that carry the stored
\* fingerprint's tag and the first token of its class.
TagClassElements ==
    LET fingerprint == elementFingerprints[lastCall.options.identifier]
    IN  {i \in DOMAIN lastCall.dom :
            /\ lastCall.dom[i].visible
            /\ matchesVariation(lastCall.dom[i].fingerprint, fingerprint, 1)}

\* The elements of the last call's page that the returned locator denotes.
ResolvedElements ==
    LET fingerprint == elementFingerprints[lastCall.options.identifier]
        dom == lastCall.dom
        q == lastCall.result.locator
        variations == attributeVariations(fingerprint)
    IN  IF lastCall.result.kind /= "locator" THEN {}
        ELSE {i \in DOMAIN dom :
                 \/ q = nth(locator("*"), i - 1)
                 \/ \E k \in DOMAIN variations :
                        /\ q = first(locator(variations[k]))
                        /\ matchesVariation(dom[i].fingerprint, fingerprint, k)
                        /\ \A j \in 1..(i - 1) :
                               ~matchesVariation(dom[j].fingerprint, fingerprint, k)
                 \/ /\ dom[i].fingerprint.tag = fingerprint.tag
                    /\ q = nth(locator(fingerprint.tag),
                               Cardinality({j \in 1..(i - 1) :
                                   dom[j].fingerprint.tag = fingerprint.tag}))}

\* C13: with learning enabled and a fingerprint stored, when every ranked
\* candidate fails while a visible element with the fingerprint's tag and
\* first class token is on the page, the call succeeds through recovery and
\* returns such an element, not another one.
C13_RecoversTagClassElement ==
    (RecoveryRan /\ TagClassElements /= {})
    => /\ Recovered
       /\ ResolvedElements /= {}
       /\ ResolvedElements \subseteq TagClassElements

\* `call` was won by one of its ranked candidates: not by a learned pattern,
\* by recovery or by the second pass.
RankedWon(call) ==
    /\ call.op \in {"smartLocatorWithLearning", "findInputWithLearning"}
    /\ call.result.kind = "locator"
    /\ call.attempted /= <<>>
    /\ <<"AI-recovered ", call.options.identifier>> \notin Range(call.logs)
    /\ <<"Falling back to original self-healing for ", call.options.identifier>>
           \notin Range(call.logs)

\* C14 as stated: with learning enabled every resolution won by a ranked
\* candidate leaves the matched element's fingerprint stored under the
\* identifier, in place of any earlier one and touching no other identifier;
\* with learning disabled no resolution changes the store.
C14_EverySuccessLearns ==
    [][/\ (aiLearningEnabled /\ RankedWon(lastCall'))
          => /\ lastCall'.seen /= NoFingerprint
             /\ elementFingerprints' =
                    [elementFingerprints EXCEPT
                        ![lastCall'.options.identifier] = lastCall'.seen]
       /\ ~aiLearningEnabled => elementFingerprints' = elementFingerprints]_vars

\* C14 (amended): with learning enabled a resolution won by a ranked
\* candidate stores the matched element's fingerprint under the identifier
\* when that fingerprint can be read, in place of any earlier one and touching
\* no other identifier; when it cannot be read, and in every other resolution
\* (recovery, second pass, learned pattern, failure, learning disabled), the
\* store is left as it was.
C14_SuccessLearnsWhenReadable ==
    [][IF aiLearningEnabled /\ RankedWon(lastCall') /\ lastCall'.seen /= NoFingerprint
       THEN elementFingerprints' =
                [elementFingerprints EXCEPT
                    ![lastCall'.options.identifier] = lastCall'.seen]
       ELSE elementFingerprints' = elementFingerprints]_vars

\* The login button was resolved by its css candidate after it had changed:
\* the store holds the fingerprint read in this call, and only for it.
C14_Witness ==
    /\ aiLearningEnabled
    /\ RankedWon(lastCall)
    /\ lastCall.options.identifier = "LoginButton"
    /\ lastCall.seen = MovedLoginButtonPrint
    /\ elementFingerprints["LoginButton"] = MovedLoginButtonPrint
    /\ elementFingerprints["SaudiIdInput"] = NoFingerprint
    /\ \E i \in DOMAIN strategyHistory["LoginButton"] :
           strategyHistory["LoginButton"][i].successRate > InitialRate + SuccessStep

\* The selector a fingerprint gives for direct re-querying: its tag with
\* '#id', or else with '.' and the first token of its class.
LearnedPatternQuery(fingerprint) ==
    <<"locator",
      fingerprint.tag \o
        (IF Truthy(fingerprint.attributes["id"])
         THEN "#" \o fingerprint.attributes["id"]
         ELSE IF Truthy(fingerprint.attributes["class"])
              THEN "." \o FirstToken(fingerprint.attributes["class"])
              ELSE "")>>

\* The page queries that are built from a stored fingerprint.
FingerprintQueries(fingerprint, dom) ==
    IF fingerprint = NoFingerprint THEN {}
    ELSE RecoveryQueries(fingerprint, dom) \cup {LearnedPatternQuery(fingerprint)}

\* The candidate queries the caller's fields give a learning call.
CallerCandidates(call) ==
    IF call.op = "findInputWithLearning"
    THEN DocumentedCandidates(
             [role |-> "textbox", text |-> UNDEF,
              placeholder |-> call.options.placeholder, label |-> call.options.label,
              testId |-> UNDEF, css |-> UNDEF, xpath |-> UNDEF])
    ELSE DocumentedCandidates(call.options)

\* Query i of `call` comes after every candidate of the caller was queried
\* and found not visible.
AfterAllCandidatesFailed(call, i) ==
    \A c \in Range(CallerCandidates(call)) :
        /\ c \notin call.vis
        /\ \E j \in 1..(i - 1) : call.queried[j] = c

LearningOps == {"smartLocatorWithLearning", "findInputWithLearning"}

\* C15 as stated: in every learning call, a page query built from the
\* fingerprint stored for the identifier comes only after all of the caller's
\* candidates were queried and failed.
C15_FingerprintOnlyForRecovery ==
    [][lastCall'.op \in LearningOps
       => \A i \in DOMAIN lastCall'.queried :
              lastCall'.queried[i] \in
                  FingerprintQueries(elementFingerprints[lastCall'.options.identifier],
                                     lastCall'.dom)
              => AfterAllCandidatesFailed(lastCall', i)]_vars

\* C15 (amended): smartLocatorWithLearning queries the page with the stored
\* fingerprint only in recovery, after all the caller's candidates failed;
\* findInputWithLearning, whenever a fingerprint is stored for the identifier,
\* first queries the selector built from it (tag with #id or first class
\* token) and, if that is visible, returns it without trying any candidate of
\* the caller, else goes on to the caller's candidates; its other fingerprint
\* queries come after all candidates failed.
C15_LearnedPatternFirst ==
    [][lastCall'.op \in LearningOps
       => LET call == lastCall'
              fingerprint == elementFingerprints[call.options.identifier]
              direct == /\ call.op = "findInputWithLearning"
                        /\ fingerprint /= NoFingerprint
          IN  /\ \A i \in DOMAIN call.queried :
                     call.queried[i] \in FingerprintQueries(fingerprint, call.dom)
                     => \/ direct /\ i = 1
                        \/ aiLearningEnabled /\ AfterAllCandidatesFailed(call, i)
              /\ direct
                 => /\ call.queried /= <<>>
                    /\ call.queried[1] = LearnedPatternQuery(fingerprint)
                    /\ IF LearnedPatternQuery(fingerprint) \in call.early
                       THEN /\ call.queried = <<LearnedPatternQuery(fingerprint)>>
                            /\ call.attempted = <<>>
                            /\ call.result = Returned(LearnedPatternQuery(fingerprint))
                       ELSE /\ Len(call.queried) > 1
                            /\ call.queried[2] \in Range(CallerCandidates(call))]_vars

\* findInputWithLearning returned the selector built from the stored
\* fingerprint of the Saudi ID input without trying the placeholder.
C15_Witness ==
    /\ lastCall.op = "findInputWithLearning"
    /\ elementFingerprints["SaudiIdInput"] = SaudiIdInputPrint
    /\ lastCall.queried = <<locator("input.form-control")>>
    /\ lastCall.result = Returned(locator("input.form-control"))
    /\ getByPlaceholder(lastCall.options.placeholder) \in lastCall.vis

\* The queries of a findElement or findByText call: the primary, then the
\* fallbacks in the caller's order.
PrimaryThenFallbacks(call) ==
    IF call.op = "findElement"
    THEN <<locator(call.options.primarySelector)>>
             \o [i \in DOMAIN call.options.fallbackSelectors |->
                    locator(call.options.fallbackSelectors[i])]
    ELSE <<getByText(call.options.primaryText)>>
             \o [i \in DOMAIN call.options.fallbackTexts |->
                    getByText(call.options.fallbackTexts[i])]

\* C21: findElement and findByText query the primary first and then the
\* fallbacks in the caller's order, stop at and return the first one that is
\* visible, and fail only after all of them were tried.
C21_PrimaryThenFallbacks ==
    lastCall.op \in {"findElement", "findByText"}
    => LET candidates == PrimaryThenFallbacks(lastCall)
           visible == {i \in DOMAIN candidates : candidates[i] \in lastCall.vis}
       IN  /\ IsPrefix(lastCall.queried, candidates)
           /\ \A i \in DOMAIN lastCall.queried :
                  \A j \in 1..(i - 1) : candidates[j] \notin lastCall.vis
           /\ visible /= {}
              => \E i \in visible :
                     /\ \A j \in visible : i <= j
                     /\ Len(lastCall.queried) = i
                     /\ lastCall.result = Returned(candidates[i])
           /\ visible = {}
              => /\ lastCall.queried = candidates
                 /\ lastCall.result.kind = "error"

\* A findByText call won by its first fallback text after the primary text
\* failed, while the second fallback text was visible too.
C21_Witness ==
    /\ lastCall.op = "findByText"
    /\ lastCall.vis = {getByText("Sign in"), getByText("Log in")}
    /\ lastCall.queried = <<getByText("Login"), getByText("Sign in")>>
    /\ lastCall.result = Returned(getByText("Sign in"))

\* The statistics store with every last-used time read as the instant it
\* denotes, whether it is held as a Date or as an ISO string: the store of a
\* selector that made the same calls without export and import.
RECURSIVE DatedRecords(_)
DatedRecords(records) ==
    IF records = <<>> THEN <<>>
    ELSE <<[Head(records) EXCEPT !.lastUsed = Abs(@)]>> \o DatedRecords(Tail(records))
Dated(history) == [id \in DOMAIN history |-> DatedRecords(history[id])]

\* This step imports the text the preceding export returned.
RoundTripStep ==
    /\ lastCall.op = "exportLearningData"
    /\ lastCall'.op = "importLearningData"
    /\ lastCall'.options.data = lastCall.options.data

\* C22: importing what was exported gives stores with the same success
\* rates, last-used instants and fingerprints, and from then on every
\* smartLocatorWithLearning call attempts the same candidates in the same
\* order and ends the same way as on the selector that kept its stores.
C22_RoundTripFaithful ==
    [][/\ RoundTripStep
          => /\ Dated(strategyHistory') = Dated(strategyHistory)
             /\ elementFingerprints' = elementFingerprints
       /\ LearningCallStep
          => LET twin == smartLocatorWithLearning(
                             Dated(strategyHistory), elementFingerprints,
                             aiLearningEnabled, now, lastCall'.options, lastCall'.vis,
                             lastCall'.seen, lastCall'.dom, lastCall'.late)
             IN  /\ lastCall'.queried = twin.run.queried
                 /\ lastCall'.attempted = twin.attempted
                 /\ lastCall'.result = twin.run.result]_vars

\* The arguments a query was built from (selector, text, role and name).
QueryArguments(q) == Range(SubSeq(q, 2, Len(q)))

ResolutionOps ==
    {"smartLocator", "findElement", "findByText", "findInput", "findButton",
     "smartLocatorWithLearning", "findInputWithLearning"}

\* C23: when a resolution call fails, the message of its error holds the
\* identifier and, for every query the call attempted, what was queried.
C23_ErrorListsAttempts ==
    (lastCall.op \in ResolutionOps /\ lastCall.result.kind = "error")
    => /\ lastCall.options.identifier \in Range(lastCall.result.message)
       /\ \A i \in DOMAIN lastCall.queried :
              QueryArguments(lastCall.queried[i]) \subseteq Range(lastCall.result.message)

\* Log lines that report a failed candidate, and lines that name a winner.
IsWarning(line) == \E k \in DOMAIN line : Contains(line[k], "failed")
IsSuccess(line) ==
    line[1] \in {"Self-healed ", "Found ", "Found input ", "Found button ",
                 "AI-recovered ", "Used learned pattern for "}

\* C24: a resolution call logs exactly one warning for each candidate that
\* failed, naming the identifier and what was queried, and exactly one line
\* naming the winner if and only if the winner was not the first candidate
\* attempted; a call won by its first candidate logs nothing.
C24_LogsPerCandidate ==
    lastCall.op \in {"smartLocator", "findElement", "findByText", "findInput",
                     "findButton", "smartLocatorWithLearning"}
    => LET won == lastCall.result.kind = "locator"
           failed == IF won
                     THEN SubSeq(lastCall.queried, 1, Len(lastCall.queried) - 1)
                     ELSE lastCall.queried
           warnings == SelectSeq(lastCall.logs, IsWarning)
           successes == SelectSeq(lastCall.logs, IsSuccess)
       IN  /\ Len(warnings) = Len(failed)
           /\ \A i \in DOMAIN failed :
                  /\ lastCall.options.identifier \in Range(warnings[i])
                  /\ QueryArguments(failed[i]) \subseteq Range(warnings[i])
           /\ Len(successes) = (IF won /\ Len(lastCall.queried) > 1 THEN 1 ELSE 0)
           /\ (won /\ Len(lastCall.queried) = 1) => lastCall.logs = <<>>

\* The three conditions of similarity between a fingerprint and an element.
TwoAttributesMatch(reference, candidate) ==
    \E a, b \in {"id", "class", "name", "type", "role", "data-testid"} :
        /\ a /= b
        /\ \A attr \in {a, b} :
               /\ Truthy(reference.attributes[attr])
               /\ reference.attributes[attr] = candidate.attributes[attr]
TextsEqual(reference, candidate) == reference.textContent = candidate.textContent
PositionsClose(reference, candidate) ==
    /\ reference.position /= <<>> /\ candidate.position /= <<>>
    /\ \A axis \in 1..2 :
           /\ reference.position[axis] - candidate.position[axis] < PositionTolerance
           /\ candidate.position[axis] - reference.position[axis] < PositionTolerance
AnyConditionHolds(reference, candidate) ==
    \/ TwoAttributesMatch(reference, candidate)
    \/ TextsEqual(reference, candidate)
    \/ PositionsClose(reference, candidate)

\* Recovery met a page with a single, visible element; general similarity
\* returned it exactly when isSimilarElement judged it similar.
JudgedOne == RecoveryRan /\ Len(lastCall.dom) = 1 /\ lastCall.dom[1].visible
JudgedSimilar == lastCall.result = Returned(nth(locator("*"), 0))

\* C25 as stated: an element is judged similar to the stored fingerprint
\* exactly when two key attributes match, or the texts are equal, or the
\* positions are closer than 50 pixels on each axis; any one suffices.
C25_AnyConditionSuffices ==
    JudgedOne
    => (JudgedSimilar
          <=> AnyConditionHolds(elementFingerprints[lastCall.options.identifier],
                                lastCall.dom[1].fingerprint))

\* C25 (amended): an element is judged similar exactly when its tag is the
\* fingerprint's and one of the three conditions holds (texts that are both
\* absent count as equal); with another tag it is never similar.
C25_SameTagAndAnyCondition ==
    JudgedOne
    => LET reference == elementFingerprints[lastCall.options.identifier]
           candidate == lastCall.dom[1].fingerprint
       IN  JudgedSimilar
               <=> /\ reference.tag = candidate.tag
                   /\ AnyConditionHolds(reference, candidate)

\* A button 49 pixels off the learned place on each axis, with no class and
\* no text, is judged similar to the learned login button and returned.
C25_Witness ==
    /\ JudgedOne
    /\ elementFingerprints["LoginButton"] = LoginButtonPrint
    /\ lastCall.dom[1].fingerprint.position = <<149, 249>>
    /\ lastCall.dom[1].fingerprint.textContent = UNDEF
    /\ lastCall.dom[1].fingerprint.attributes["class"] = UNDEF
    /\ lastCall.dom[1].fingerprint.tag = "button"
    /\ JudgedSimilar

\* C26: a learning call returns only what one of the candidate queries of
\* the caller's fields, or a query built from the fingerprint stored for the
\* identifier, located; with no candidate and no fingerprint it fails.
C26_OnlyCallerOrFingerprint ==
    lastCall.op \in LearningOps
    => LET fingerprint == elementFingerprints[lastCall.options.identifier]
           candidates == Range(CallerCandidates(lastCall))
       IN  /\ lastCall.result.kind = "locator"
              => lastCall.result.locator
                     \in candidates \cup FingerprintQueries(fingerprint, lastCall.dom)
           /\ (candidates = {} /\ fingerprint = NoFingerprint)
              => lastCall.result.kind = "error"

\* The positions of the records of `after` that `before` did not hold as they
\* are now.
ChangedRecords(before, after) ==
    {i \in DOMAIN after : i \notin DOMAIN before \/ before[i] /= after[i]}

\* C27: the statistics store never holds two records of one strategy name for
\* an identifier, and the records of an identifier are created or changed only
\* by a learning call for that identifier, and only those of strategies the
\* call attempted; no record is ever removed or renamed.
C27_OneRecordPerStrategy ==
    /\ [](\A id \in Identifiers :
              \A i, j \in DOMAIN strategyHistory[id] :
                  strategyHistory[id][i].name = strategyHistory[id][j].name => i = j)
    /\ [][\A id \in Identifiers :
              strategyHistory'[id] /= strategyHistory[id]
              => /\ lastCall'.op \in LearningOps
                 /\ lastCall'.options.identifier = id
                 /\ Len(strategyHistory'[id]) >= Len(strategyHistory[id])
                 /\ \A i \in DOMAIN strategyHistory[id] :
                        strategyHistory'[id][i].name = strategyHistory[id][i].name
                 /\ \A i \in ChangedRecords(strategyHistory[id], strategyHistory'[id]) :
                        strategyHistory'[id][i].name \in Range(lastCall'.attempted)]_vars

\* Both identifiers have statistics: the login button a css record that has
\* succeeded more than once, the Saudi ID input a placeholder record.
C27_Witness ==
    /\ Len(strategyHistory["LoginButton"]) = 1
    /\ strategyHistory["LoginButton"][1].successRate > InitialRate
    /\ Len(strategyHistory["SaudiIdInput"]) = 1
    /\ strategyHistory["SaudiIdInput"][1].name = "placeholder: Saudi ID"
    /\ lastCall.op = "smartLocatorWithLearning"

ImportStep ==
    /\ lastCall'.op = "importLearningData"
    /\ now' = now

StoresKept ==
    /\ strategyHistory' = strategyHistory
    /\ elementFingerprints' = elementFingerprints

StoresReplaced ==
    /\ strategyHistory' = lastCall'.options.data.strategies
    /\ elementFingerprints' = lastCall'.options.data.fingerprints

\* C29: importLearningData never throws; given a text that is not JSON it
\* leaves both stores as they were, and given any text that is JSON it
\* replaces both stores by what the text holds.
C29_ParseableReplaces ==
    [][ImportStep
       => /\ lastCall'.result = Void
          /\ IF lastCall'.options.data.kind = "garbage"
             THEN StoresKept
             ELSE StoresReplaced]_vars

\* C29, amended: importLearningData never throws; given a text that is not
\* JSON, or the JSON text null, it logs one warning and leaves both stores
\* as they were; given the JSON text of an object it replaces both stores by
\* what the object holds, a store the object does not hold becoming empty.
C29_ObjectReplaces ==
    [][ImportStep
       => /\ lastCall'.result = Void
          /\ IF lastCall'.options.data.kind \in {"garbage", "null"}
             THEN /\ StoresKept
                  /\ lastCall'.logs = <<<<"Failed to import learning data:">>>>
             ELSE /\ StoresReplaced
                  /\ lastCall'.logs = <<>>]_vars

\* The JSON text null was imported into stores that an earlier import had
\* replaced (their last-used time is a string): they are kept, with a warning.
C29_Witness ==
    /\ lastCall.op = "importLearningData"
    /\ lastCall.options.data = NullText
    /\ lastCall.logs = <<<<"Failed to import learning data:">>>>
    /\ strategyHistory["LoginButton"] /= <<>>
    /\ IsDateString(strategyHistory["LoginButton"][1].lastUsed)
    /\ elementFingerprints["LoginButton"] = LoginButtonPrint

\* The navigation attempts and the waits of a goto call, in order.
Navigations(call) == SelectSeq(call.queried, LAMBDA q : q[1] = "page.goto")
Waits(call) == SelectSeq(call.queried, LAMBDA q : q[1] = "page.waitForTimeout")

\* The attempts a goto call makes: up to the first one that loads the page,
\* all of them when none does.
ExpectedAttempts(script) ==
    IF \E i \in DOMAIN script : script[i] = "loaded"
    THEN CHOOSE i \in DOMAIN script :
             /\ script[i] = "loaded"
             /\ \A j \in 1..(i - 1) : script[j] /= "loaded"
    ELSE Len(script)

\* C30: LoginPage.goto makes at most 3 navigation attempts and none after the
\* first that succeeds, waits once after each failed attempt that another
\* attempt follows and not otherwise, and returns normally whatever the
\* attempts did, all three failing included.
C30_GotoNeverThrows ==
    lastCall.op = "goto"
    => /\ Len(Navigations(lastCall)) = ExpectedAttempts(lastCall.options.script)
       /\ Len(Navigations(lastCall)) <= maxRetries
       /\ Len(Waits(lastCall)) = Len(Navigations(lastCall)) - 1
       /\ lastCall.result = Void

============================================================================
